---------------------------- MODULE Spec2Model ----------------------------
(***************************************************************************)
(* quartofmt: tokenizer -> block parser (CST builder) -> formatter.        *)
(*                                                                         *)
(* A document is a sequence of characters, each a one-character string;    *)
(* the backtick is written "BT" (it cannot appear in a TLA+ string).       *)
(* Positions are byte offsets counted from 0 as in the Rust code; the      *)
(* alphabet is ASCII, so a character is one byte.                          *)
(***************************************************************************)
EXTENDS Integers, Sequences, FiniteSets, TLC

BT == "BT"
NL == "\n"
NoChar == "NONE"

Digits == {"0", "1", "2", "3", "4", "5", "6", "7", "8", "9"}
Letters == {"a", "b", "c", "d", "e", "f", "g", "h", "i", "j", "k", "l", "m",
            "n", "o", "p", "q", "r", "s", "t", "u", "v", "w", "x", "y", "z",
            "A", "B", "C", "D", "E", "F", "G", "H", "I", "J", "K", "L", "M",
            "N", "O", "P", "Q", "R", "S", "T", "U", "V", "W", "X", "Y", "Z"}
WsChars == {" ", "\t", "\r"}

(***************************************************************************)
(* Sequence helpers.  Scans are written as "least index such that" over a  *)
(* set, so that a scan over a long document does not nest evaluation.      *)
(***************************************************************************)
MinOf(S) == CHOOSE x \in S : \A y \in S : x <= y

RECURSIVE Flatten(_)
Flatten(ss) == IF ss = <<>> THEN <<>> ELSE Head(ss) \o Flatten(Tail(ss))

Repeat(s, n) == [i \in 1..(n * Len(s)) |-> s[((i - 1) % Len(s)) + 1]]

Slice(s, from, to) == [i \in 1..(to - from) |-> s[from + i]]

(***************************************************************************)
(*                              LEXER                                      *)
(***************************************************************************)
CharAt(inp, p) == IF p >= 0 /\ p < Len(inp) THEN inp[p + 1] ELSE NoChar

starts_with(inp, p, pre) ==
    /\ p + Len(pre) <= Len(inp)
    /\ \A i \in 1..Len(pre) : inp[p + i] = pre[i]

\* Position reached by advance_while(c \in Cls) started at p.
RECURSIVE RunEnd(_, _, _)
RunEnd(inp, p, Cls) ==
    IF p >= Len(inp) \/ inp[p + 1] \notin Cls THEN p ELSE RunEnd(inp, p + 1, Cls)

advance_while(inp, p, Cls) == RunEnd(inp, p, Cls) - p

\* "while let Some(c) = current_char() { advance(); if c == stop { break } }"
RECURSIVE ScanPast(_, _, _)
ScanPast(inp, p, stop) ==
    IF p >= Len(inp) THEN p
    ELSE IF inp[p + 1] = stop THEN p + 1 ELSE ScanPast(inp, p + 1, stop)

\* input[..pos].rfind('\n').map(|i| i + 1).unwrap_or(0)
RECURSIVE LineStart(_, _)
LineStart(inp, pos) ==
    IF pos <= 0 THEN 0
    ELSE IF inp[pos] = NL THEN pos ELSE LineStart(inp, pos - 1)

\* Columns of a prefix made of spaces/tabs only (tab = 4).
RECURSIVE IndentCols(_, _, _)
IndentCols(inp, from, to) ==
    IF from >= to THEN 0
    ELSE (IF inp[from + 1] = "\t" THEN 4 ELSE 1) + IndentCols(inp, from + 1, to)

\* Lexer::at_bol_with_indent: -1 stands for None.
at_bol_with_indent(inp, pos) ==
    IF pos = 0 THEN 0
    ELSE LET ls == LineStart(inp, pos)
             firstBad == RunEnd(inp, ls, {" ", "\t"})
         IN IF firstBad < pos THEN -1
            ELSE LET indent == IndentCols(inp, ls, pos)
                 IN IF indent <= 3 THEN indent ELSE -1

\* Lexer::is_list_marker
is_list_marker(inp, pos) ==
    LET ls == LineStart(inp, pos)
        is_bol_or_indent == RunEnd(inp, ls, {" ", "\t"}) >= pos
    IN /\ is_bol_or_indent
       /\ CharAt(inp, pos) \in {"-", "+", "*"}
       /\ CharAt(inp, pos + 1) = " "

\* Lexer::is_numbered_list_marker
is_numbered_list_marker(inp, pos) ==
    /\ CharAt(inp, pos) \in Digits
    /\ LET offset == advance_while(inp, pos, Digits)
       IN CharAt(inp, pos + offset) = "." /\ CharAt(inp, pos + offset + 1) = " "

QuoteMarkerAnywhere(inp, pos) == CharAt(inp, pos) = ">"

\* Lexer::is_block_quote_marker
is_block_quote_marker(inp, pos) ==
    /\ CharAt(inp, pos) = ">"
    /\ LET line_start == LineStart(inp, pos)
           ind_end == LET e == RunEnd(inp, line_start, {" ", "\t"})
                      IN IF e > pos THEN pos ELSE e
           indent_cols == IndentCols(inp, line_start, ind_end)
           rest_ok == \A j \in ind_end..(pos - 1) : inp[j + 1] \in {">", " "}
           prior_markers == Cardinality({j \in ind_end..(pos - 1) : inp[j + 1] = ">"})
       IN /\ indent_cols <= 3
          /\ rest_ok
          /\ \/ prior_markers > 0
             \/ line_start = 0
             \/ LET prev_line_end == line_start - 1
                    prev_line_start == LineStart(inp, prev_line_end)
                    blank == \A j \in prev_line_start..(prev_line_end - 1) :
                                 inp[j + 1] \in {" ", "\t", "\r"}
                    pe == LET e == RunEnd(inp, prev_line_start, {" ", "\t"})
                          IN IF e > prev_line_end THEN prev_line_end ELSE e
                    prev_indent == IndentCols(inp, prev_line_start, pe)
                IN \/ blank
                   \/ (prev_indent <= 3 /\ pe < prev_line_end /\ inp[pe + 1] = ">")

\* One balanced group of a LaTeX command: the inner "while let" with the counter.
RECURSIVE SkipGroup(_, _, _, _, _)
SkipGroup(inp, p, count, open, close) ==
    IF p >= Len(inp) THEN p
    ELSE LET c == inp[p + 1]
         IN IF c = open THEN SkipGroup(inp, p + 1, count + 1, open, close)
            ELSE IF c = close
                 THEN IF count - 1 = 0 THEN p + 1
                      ELSE SkipGroup(inp, p + 1, count - 1, open, close)
                 ELSE SkipGroup(inp, p + 1, count, open, close)

RECURSIVE SkipGroups(_, _, _, _)
SkipGroups(inp, p, open, close) ==
    IF CharAt(inp, p) = open
    THEN SkipGroups(inp, SkipGroup(inp, p, 0, open, close), open, close)
    ELSE p

Tok(kind, len, pos) == [kind |-> kind, len |-> len, pos |-> pos]

\* The stop test of the default TEXT run at position j.
TextStops(inp, j) ==
    \/ j >= Len(inp)
    \/ inp[j + 1] \in {NL, " ", "^", "\t", "\r", BT, "~", "$", "[", "]", "\\"}
    \/ (inp[j + 1] = "<" /\ starts_with(inp, j, <<"<", "!", "-", "-">>))
    \/ (inp[j + 1] = "-" /\ starts_with(inp, j, <<"-", "-", ">">>))

LexLink(inp, pos, skip, full, start) ==
    LET afterBr == ScanPast(inp, pos + skip, "]")
    IN IF CharAt(inp, afterBr) = "("
       THEN LET e == ScanPast(inp, afterBr + 1, ")") IN Tok(full, e - pos, e)
       ELSE Tok(start, afterBr - pos, afterBr)

LexBackslash(inp, pos) ==
    IF CharAt(inp, pos + 1) \in Letters
    THEN LET afterName == RunEnd(inp, pos + 1, Letters)
             afterSq == SkipGroups(inp, afterName, "[", "]")
             afterBr == SkipGroups(inp, afterSq, "{", "}")
         IN Tok("LatexCommand", afterBr - pos, afterBr)
    ELSE Tok("TEXT", 1, pos + 1)

\* The search for the closing run of a code span: the first position from p
\* where the text starts with ticks, or the end of the input.
RECURSIVE CodeSpanCloser(_, _, _)
CodeSpanCloser(inp, p, ticks) ==
    IF p >= Len(inp) \/ starts_with(inp, p, ticks) THEN p
    ELSE CodeSpanCloser(inp, p + 1, ticks)

LexCodeSpan(inp, pos) ==
    LET tick_count == advance_while(inp, pos, {BT})
        p1 == pos + tick_count
        closer == CodeSpanCloser(inp, p1, Repeat(<<BT>>, tick_count))
        e == RunEnd(inp, closer, {BT})
    IN Tok("CodeSpan", e - pos, e)

LexDollarEscapedAs(inp, pos, after) == Tok("TEXT", 2, after)
LexDollarEscaped(inp, pos, after) == Tok("TEXT", 1, after)

LexDollar(inp, pos) ==
    LET dollar_count == advance_while(inp, pos, {"$"})
        after == pos + dollar_count
    IN IF dollar_count >= 2 THEN Tok("BlockMathMarker", dollar_count, after)
       ELSE IF pos > 0 /\ CharAt(inp, pos - 1) = "\\"
            THEN LexDollarEscaped(inp, pos, after)
            ELSE IF CharAt(inp, after) \in Digits
                 THEN LET e == RunEnd(inp, after, Digits \cup {",", "."})
                      IN Tok("TEXT", e - pos, e)
                 ELSE Tok("InlineMathMarker", 1, after)

LexDashRun(inp, pos) ==
    LET e == RunEnd(inp, pos, {CharAt(inp, pos)})
        len == e - pos
        is_start_of_file == pos = 0
        is_after_newline == pos > 0 /\ CharAt(inp, pos - 1) = NL
    IN IF (is_start_of_file \/ is_after_newline) /\ len = 3
       THEN Tok("FrontmatterDelim", len, e)
       ELSE Tok("TEXT", len, e)

LexNumbered(inp, pos) ==
    LET digitsEnd == RunEnd(inp, pos, Digits)
        dot == CharAt(inp, digitsEnd) = "."
    IN Tok("ListMarker", (digitsEnd - pos) + (IF dot THEN 1 ELSE 0),
           digitsEnd + (IF dot THEN 1 ELSE 0))

LexTextForcedAs(inp, pos) == Tok("TEXT", 1, pos)
LexTextForced(inp, pos) == Tok("TEXT", 1, pos + 1)

RECURSIVE TextEnd(_, _)
TextEnd(inp, j) == IF TextStops(inp, j) THEN j ELSE TextEnd(inp, j + 1)

LexText(inp, pos) ==
    LET e == TextEnd(inp, pos)
        len == e - pos
    IN IF len = 0 THEN LexTextForced(inp, pos) ELSE Tok("TEXT", len, e)

\* The part of next_token after the BOL fence match: ch is the character read
\* at entry, pos the lexer position when this part starts.
LexRest(inp, pos, ch) ==
    IF starts_with(inp, pos, <<"\\", "b", "e", "g", "i", "n", "{">>)
    THEN LET e == ScanPast(inp, pos + 7, "}") IN Tok("LatexEnvBegin", e - pos, e)
    ELSE IF starts_with(inp, pos, <<"\\", "e", "n", "d", "{">>)
    THEN LET e == ScanPast(inp, pos + 5, "}") IN Tok("LatexEnvEnd", e - pos, e)
    ELSE IF ch = NL THEN Tok("NEWLINE", 1, pos + 1)
    ELSE IF ch \in WsChars
    THEN LET e == RunEnd(inp, pos, WsChars) IN Tok("WHITESPACE", e - pos, e)
    ELSE IF ch = "\\" THEN LexBackslash(inp, pos)
    ELSE IF ch = BT THEN LexCodeSpan(inp, pos)
    ELSE IF ch = "$" THEN LexDollar(inp, pos)
    ELSE IF ch = "^" /\ starts_with(inp, pos, <<"^", "[">>)
    THEN Tok("InlineFootnoteStart", 2, pos + 2)
    ELSE IF ch \in {"-", "+"} /\ (\/ starts_with(inp, pos, <<"-", "-", "-">>)
                                  \/ starts_with(inp, pos, <<"+", "+", "+">>))
    THEN LexDashRun(inp, pos)
    ELSE IF ch = "<" /\ starts_with(inp, pos, <<"<", "!", "-", "-">>)
    THEN Tok("CommentStart", 4, pos + 4)
    ELSE IF ch = "-" /\ starts_with(inp, pos, <<"-", "-", ">">>)
    THEN Tok("CommentEnd", 3, pos + 3)
    ELSE IF ch = "!" /\ starts_with(inp, pos, <<"!", "[">>)
    THEN LexLink(inp, pos, 2, "ImageLink", "ImageLinkStart")
    ELSE IF ch = "[" THEN LexLink(inp, pos, 1, "Link", "LinkStart")
    ELSE IF ch = "]" THEN Tok("InlineFootnoteEnd", 1, pos + 1)
    ELSE IF ch = ">"
    THEN IF is_block_quote_marker(inp, pos)
         THEN Tok("BlockQuoteMarker", 1, pos + 1)
         ELSE Tok("TEXT", 1, pos + 1)
    ELSE IF ch \in {"-", "+", "*"} /\ is_list_marker(inp, pos)
    THEN Tok("ListMarker", 1, pos + 1)
    ELSE IF ch = "{"
    THEN LET e == ScanPast(inp, pos + 1, "}") IN Tok("Attribute", e - pos, e)
    ELSE IF ch \in Digits /\ is_numbered_list_marker(inp, pos)
    THEN LexNumbered(inp, pos)
    ELSE LexText(inp, pos)

\* Lexer::next_token for pos < len: the token (kind, len) and the lexer
\* position after the call.
next_token(inp, pos) ==
    LET ch == CharAt(inp, pos)
        indent == at_bol_with_indent(inp, pos)
    IN IF /\ indent # -1
          /\ ch \in {BT, "~"}
          /\ (\/ starts_with(inp, pos, <<BT, BT, BT>>)
              \/ starts_with(inp, pos, <<"~", "~", "~">>))
       THEN LET tick_count == advance_while(inp, pos, {BT, "~"})
            IN IF tick_count >= 3
               THEN Tok("CodeFenceMarker", tick_count, pos + tick_count)
               ELSE LexRest(inp, pos + tick_count, ch)
       ELSE IF indent # -1 /\ ch = ":" /\ starts_with(inp, pos, <<":", ":", ":">>)
       THEN LET len == advance_while(inp, pos, {":"}) IN Tok("DivMarker", len, pos + len)
       ELSE LexRest(inp, pos, ch)

\* tokenize as a pure function (used when a formatted text is parsed again).
\* A token is {kind, len}; start caches token_offset(tokens, idx), the sum of
\* the len fields before it.
RECURSIVE TokenizeFrom(_, _, _)
TokenizeFrom(inp, pos, start) ==
    IF pos >= Len(inp) THEN <<>>
    ELSE LET t == next_token(inp, pos)
             tk == [kind |-> t.kind, len |-> t.len, start |-> start]
         IN IF t.pos <= pos THEN <<tk>>
            ELSE <<tk>> \o TokenizeFrom(inp, t.pos, start + t.len)

tokenize(inp) == TokenizeFrom(inp, 0, 0)

(***************************************************************************)
(*                              PARSER                                     *)
(* The concrete syntax tree: a token is a leaf carrying its text, a node   *)
(* carries its children.  A parser state ps holds the Parser fields plus   *)
(* out, the children emitted so far into the node under construction, and  *)
(* abort, the panic that ended the parse ("none" while running).           *)
(***************************************************************************)
Leaf(kind, text) == [kind |-> kind, leaf |-> TRUE, text |-> text, kids |-> <<>>]
Node(kind, kids) == [kind |-> kind, leaf |-> FALSE, text |-> <<>>, kids |-> kids]

\* SyntaxNode::text(): the concatenation of the leaves in order.
RECURSIVE NodeText(_)
NodeText(e) ==
    IF e.leaf THEN e.text
    ELSE Flatten([i \in 1..Len(e.kids) |-> NodeText(e.kids[i])])

ParserNew(inp, toks) ==
    [inp |-> inp, toks |-> toks, pos |-> 0, off |-> 0, out |-> <<>>, abort |-> "none"]

KindAt(ps, i) == IF i >= 0 /\ i < Len(ps.toks) THEN ps.toks[i + 1].kind ELSE "EOF"
LenAt(ps, i) == IF i >= 0 /\ i < Len(ps.toks) THEN ps.toks[i + 1].len ELSE 0

token_offset(ps, idx) == ps.toks[idx + 1].start

token_text(ps, idx) ==
    Slice(ps.inp, token_offset(ps, idx), token_offset(ps, idx) + ps.toks[idx + 1].len)

at(ps, kind) == KindAt(ps, ps.pos) = kind
at_eof(ps) == ps.pos >= Len(ps.toks)
at_eol(ps) == at(ps, "NEWLINE") \/ at(ps, "BlankLine")
at_eol_or_eof(ps) == at_eol(ps) \/ at_eof(ps)

advance(ps) ==
    IF at_eof(ps) THEN ps
    ELSE LET token == ps.toks[ps.pos + 1]
             text == Slice(ps.inp, ps.off, ps.off + token.len)
         IN [ps EXCEPT !.out = Append(@, Leaf(token.kind, text)),
                       !.off = @ + token.len,
                       !.pos = @ + 1]

skip_token(ps) ==
    IF at_eof(ps) THEN ps
    ELSE [ps EXCEPT !.off = @ + ps.toks[ps.pos + 1].len, !.pos = @ + 1]

\* builder.start_node / finish_node around the states of a handler.
StartNode(ps) == [ps EXCEPT !.out = <<>>]
FinishNode(outer, kind, inner) ==
    [inner EXCEPT !.out = Append(outer.out, Node(kind, inner.out))]

AdvanceIf(ps, kinds) == IF KindAt(ps, ps.pos) \in kinds THEN advance(ps) ELSE ps

\* advance() wrapped in a node of the same kind, when the current token has it.
AdvanceNodeIf(ps, kind, nodeKind) ==
    IF at(ps, kind) THEN FinishNode(ps, nodeKind, advance(StartNode(ps))) ELSE ps

\* "while !at_eof() && !at(k) { advance() }" for k in stops.
RECURSIVE AdvanceUntil(_, _)
AdvanceUntil(ps, stops) ==
    IF at_eof(ps) \/ KindAt(ps, ps.pos) \in stops THEN ps
    ELSE AdvanceUntil(advance(ps), stops)

\* "while at(k) { advance() }" for k in kinds.
RECURSIVE AdvanceWhile(_, _)
AdvanceWhile(ps, kinds) ==
    IF KindAt(ps, ps.pos) \in kinds THEN AdvanceWhile(advance(ps), kinds) ELSE ps

\* First token index >= p whose kind is not in kinds (Len(toks) at the end).
SkipKinds(ps, p, kinds) ==
    MinOf({j \in p..Len(ps.toks) : j = Len(ps.toks) \/ ps.toks[j + 1].kind \notin kinds})

\* Last index i <= p such that the tokens i..p-1 all have a kind in kinds.
SkipKindsBack(ps, p, kinds) ==
    p - MinOf({d \in 0..p : d = p \/ ps.toks[p - d].kind \notin kinds})

at_bol(ps) ==
    IF ps.pos = 0 THEN TRUE
    ELSE LET i == SkipKindsBack(ps, ps.pos, {"WHITESPACE"})
         IN IF i = 0 THEN TRUE ELSE KindAt(ps, i - 1) \in {"NEWLINE", "BlankLine"}

EolKinds == {"NEWLINE", "BlankLine"}

LenientFrontmatter(ps) == advance(ps)

parse_frontmatter(ps) ==
    LET a == advance(StartNode(ps))
        b == AdvanceUntil(a, EolKinds)
        c == AdvanceIf(b, EolKinds)
        d == AdvanceUntil(c, {"FrontmatterDelim"})
    IN IF at_eof(d)
       THEN [FinishNode(ps, "FRONTMATTER", d) EXCEPT !.abort = "frontmatter"]
       ELSE LET e == advance(d)
                f == AdvanceUntil(e, EolKinds)
                g == AdvanceIf(f, {"NEWLINE"})
            IN FinishNode(ps, "FRONTMATTER", g)

parse_inline_footnote(ps) ==
    LET a == advance(StartNode(ps))
        b == AdvanceUntil(a, {"InlineFootnoteEnd"})
        c == AdvanceIf(b, {"InlineFootnoteEnd"})
    IN FinishNode(ps, "InlineFootnote", c)

parse_code_block(ps) ==
    LET blk == StartNode(ps)
        o1 == advance(StartNode(blk))
        o2 == IF at(o1, "TEXT") \/ at(o1, "WHITESPACE")
              THEN FinishNode(o1, "CodeInfo", AdvanceUntil(StartNode(o1), EolKinds))
              ELSE o1
        o3 == AdvanceIf(o2, EolKinds)
        opened == FinishNode(blk, "CodeFenceOpen", o3)
        content == FinishNode(opened, "CodeContent",
                              AdvanceUntil(StartNode(opened), {"CodeFenceMarker"}))
        closed == AdvanceNodeIf(content, "CodeFenceMarker", "CodeFenceClose")
    IN FinishNode(ps, "CodeBlock", closed)

parse_latex_environment(ps) ==
    LET env == StartNode(ps)
        a == AdvanceNodeIf(env, "LatexEnvBegin", "LatexEnvBegin")
        b == FinishNode(a, "LatexEnvContent", AdvanceUntil(StartNode(a), {"LatexEnvEnd"}))
        c == AdvanceNodeIf(b, "LatexEnvEnd", "LatexEnvEnd")
    IN FinishNode(ps, "LatexEnvironment", c)

StuckComment(ps) == ps

parse_comment(ps) ==
    IF ~at(ps, "CommentStart") THEN [ps EXCEPT !.abort = "comment"]
    ELSE LET a == advance(StartNode(ps))
             b == AdvanceUntil(a, {"CommentEnd"})
             c == AdvanceIf(b, {"CommentEnd"})
         IN FinishNode(ps, "Comment", c)

parse_link(ps) ==
    LET a == advance(StartNode(ps))
        b == AdvanceNodeIf(a, "Attribute", "Attribute")
    IN FinishNode(ps, "Link", b)

parse_image_link(ps) ==
    LET a == advance(StartNode(ps))
        b == AdvanceNodeIf(a, "Attribute", "Attribute")
    IN FinishNode(ps, "ImageLink", b)

parse_inline_math(ps) ==
    LET m == StartNode(ps)
        a == AdvanceNodeIf(m, "InlineMathMarker", "InlineMathMarker")
        b == FinishNode(a, "MathContent", AdvanceUntil(StartNode(a), {"InlineMathMarker"}))
        c == AdvanceNodeIf(b, "InlineMathMarker", "InlineMathMarker")
    IN FinishNode(ps, "InlineMath", c)

parse_block_math(ps) ==
    LET m == StartNode(ps)
        a == AdvanceNodeIf(m, "BlockMathMarker", "BlockMathMarker")
        b == FinishNode(a, "MathContent", AdvanceUntil(StartNode(a), {"BlockMathMarker"}))
        c == AdvanceNodeIf(b, "BlockMathMarker", "BlockMathMarker")
        d == AdvanceIf(c, {"WHITESPACE"})
        e == AdvanceNodeIf(d, "Attribute", "Attribute")
        f == AdvanceIf(e, EolKinds)
    IN FinishNode(ps, "MathBlock", f)

\* Sum of the len fields of the tokens a..b-1.
RECURSIVE LensBetween(_, _, _)
LensBetween(ps, a, b) == IF a >= b THEN 0 ELSE LenAt(ps, a) + LensBetween(ps, a + 1, b)

\* "while self.pos < target { advance() }"
RECURSIVE AdvanceTo(_, _)
AdvanceTo(ps, target) == IF ps.pos < target THEN AdvanceTo(advance(ps), target) ELSE ps

\* while at(BlockQuoteMarker) { skip_token(); if at(WHITESPACE) { skip_token() } }
RECURSIVE SkipQuoteMarkers(_)
SkipQuoteMarkers(ps) ==
    IF at(ps, "BlockQuoteMarker")
    THEN LET a == skip_token(ps)
         IN SkipQuoteMarkers(IF at(a, "WHITESPACE") THEN skip_token(a) ELSE a)
    ELSE ps

\* The inner "loop" of parse_block_quote: one paragraph over quoted and lazy lines.
RECURSIVE QuoteParagraphLoop(_)
QuoteParagraphLoop(ps) ==
    LET a == AdvanceUntil(ps, {"NEWLINE"})
        b == AdvanceIf(a, {"NEWLINE"})
    IN IF at(b, "BlockQuoteMarker")
       THEN LET tmp == SkipKinds(b, b.pos + 1, {"WHITESPACE"})
            IN IF KindAt(b, tmp) = "NEWLINE" THEN b
               ELSE QuoteParagraphLoop(SkipQuoteMarkers(b))
       ELSE IF at(b, "TEXT") \/ at(b, "WHITESPACE") THEN QuoteParagraphLoop(b)
       ELSE b

RECURSIVE parse_block_quote(_)
RECURSIVE BlockQuoteLoop(_, _)
BlockQuoteLoop(ps, last_was_blank) ==
    IF at_eof(ps) \/ ~at(ps, "BlockQuoteMarker") THEN ps
    ELSE LET a == advance(ps)
             b == AdvanceIf(a, {"WHITESPACE"})
         IN IF at(b, "NEWLINE")
            THEN BlockQuoteLoop(FinishNode(b, "BlankLine", advance(StartNode(b))), TRUE)
            ELSE IF last_was_blank /\ at(b, "BlockQuoteMarker")
            THEN BlockQuoteLoop(parse_block_quote(b), FALSE)
            ELSE BlockQuoteLoop(
                     FinishNode(b, "PARAGRAPH", QuoteParagraphLoop(StartNode(b))), FALSE)

parse_block_quote(ps) == FinishNode(ps, "BlockQuote", BlockQuoteLoop(StartNode(ps), FALSE))

is_blank_line(ps) ==
    /\ at(ps, "NEWLINE")
    /\ LET i == SkipKindsBack(ps, ps.pos, {"WHITESPACE"})
       IN i = 0 \/ KindAt(ps, i - 1) = "NEWLINE"

RECURSIVE ListItemLoop(_)
ListItemLoop(ps) ==
    IF at_eof(ps) THEN ps
    ELSE IF at(ps, "NEWLINE") /\ is_blank_line(ps) THEN ps
    ELSE IF /\ at(ps, "NEWLINE")
            /\ KindAt(ps, SkipKinds(ps, ps.pos + 1, {"WHITESPACE"})) = "ListMarker"
         THEN advance(ps)
         ELSE ListItemLoop(advance(ps))

parse_list_item(ps) ==
    LET a == AdvanceWhile(StartNode(ps), {"WHITESPACE"})
        b == AdvanceIf(a, {"ListMarker"})
        c == AdvanceIf(b, {"WHITESPACE"})
    IN FinishNode(ps, "ListItem", ListItemLoop(c))

RECURSIVE parse_list(_, _)
RECURSIVE ListLoop(_, _)
ListLoop(ps, indent) ==
    IF at_eof(ps) THEN ps
    ELSE LET temp_pos == SkipKinds(ps, ps.pos, {"WHITESPACE"})
             current_indent == LensBetween(ps, ps.pos, temp_pos)
         IN IF KindAt(ps, temp_pos) = "ListMarker"
            THEN IF current_indent = indent THEN ListLoop(parse_list_item(ps), indent)
                 ELSE IF current_indent > indent
                      THEN ListLoop(parse_list(ps, current_indent), indent)
                      ELSE ps
            ELSE ps

parse_list(ps, indent) == FinishNode(ps, "List", ListLoop(StartNode(ps), indent))

\* parse_paragraph gives up (panics) when its loop starts an iteration beyond this.
MaxParagraphIterations == 1000

ParagraphBreaks ==
    {"BlankLine", "CommentStart", "CodeFenceMarker", "DivMarker", "BlockMathMarker"}

\* The match of one parse_paragraph iteration that does not break.
ParagraphIter(ps) ==
    LET kind == KindAt(ps, ps.pos)
    IN IF kind = "Link" THEN parse_link(ps)
       ELSE IF kind = "ImageLink" THEN parse_image_link(ps)
       ELSE IF kind = "InlineMathMarker" THEN parse_inline_math(ps)
       ELSE IF kind = "InlineFootnoteStart" THEN parse_inline_footnote(ps)
       ELSE advance(ps)

\* One turn of the "while !at_eof()" loop of parse_paragraph; done tells that
\* the loop is over (end of input, break or panic).
ParagraphTurn(ps, iterations) ==
    IF at_eof(ps) THEN [ps |-> ps, done |-> TRUE]
    ELSE IF iterations + 1 > MaxParagraphIterations
    THEN [ps |-> [ps EXCEPT !.abort = "paragraph_iterations"], done |-> TRUE]
    ELSE IF KindAt(ps, ps.pos) \in ParagraphBreaks THEN [ps |-> ps, done |-> TRUE]
    ELSE LET a == ParagraphIter(ps)
         IN IF a.pos = ps.pos
            THEN [ps |-> [a EXCEPT !.abort = "paragraph_stuck"], done |-> TRUE]
            ELSE [ps |-> a, done |-> FALSE]

\* The state of the loop between two turns.
ParagraphTurn1(st) ==
    IF st.done THEN st
    ELSE LET t == ParagraphTurn(st.ps, st.iterations)
         IN [ps |-> t.ps,
             iterations |-> IF t.done THEN st.iterations ELSE st.iterations + 1,
             done |-> t.done]

\* n turns of the loop, split in halves so that a long paragraph does not nest
\* evaluation as deep as it is long.
RECURSIVE ParagraphTurns(_, _)
ParagraphTurns(st, n) ==
    IF st.done THEN st
    ELSE IF n <= 1 THEN ParagraphTurn1(st)
    ELSE ParagraphTurns(ParagraphTurns(st, n \div 2), n - (n \div 2))

\* The whole loop: a turn that goes on consumes a token, so one turn more than
\* there are tokens left ends it.
ParagraphLoop(ps) ==
    ParagraphTurns([ps |-> ps, iterations |-> 0, done |-> FALSE],
                   Len(ps.toks) - ps.pos + 1).ps

parse_paragraph(ps) == FinishNode(ps, "PARAGRAPH", ParagraphLoop(StartNode(ps)))

parse_blank_line(ps) ==
    FinishNode(ps, "BlankLine",
               AdvanceWhile(StartNode(ps), {"NEWLINE", "BlankLine", "WHITESPACE"}))

(***************************************************************************)
(* Token-text predicates of the table and heading detectors.               *)
(***************************************************************************)
TrimChars == {" ", "\t", "\n", "\r"}

\* str::trim()
Trim(t) ==
    LET keep == {i \in 1..Len(t) : t[i] \notin TrimChars}
    IN IF keep = {} THEN <<>>
       ELSE Slice(t, MinOf(keep) - 1, CHOOSE x \in keep : \A y \in keep : y <= x)

AllIn(t, cs) == \A i \in 1..Len(t) : t[i] \in cs

\* !trimmed.is_empty() && !trimmed.chars().all(|c| c == '-' || c == ' ')
IsHeaderText(t) == Trim(t) # <<>> /\ ~AllIn(Trim(t), {"-", " "})

\* !trimmed.is_empty() && trimmed.contains('-') && all '-' or ' '
IsDashText(t) ==
    /\ Trim(t) # <<>>
    /\ \E i \in 1..Len(Trim(t)) : Trim(t)[i] = "-"
    /\ AllIn(Trim(t), {"-", " "})

\* text.trim().chars().all(|c| c == '-' || c == ' ')
IsLooseDashText(t) == AllIn(Trim(t), {"-", " "})

\* First index >= p whose token is neither WHITESPACE nor a TEXT passing Ok.
SkipLine(ps, p, Ok(_)) ==
    MinOf({j \in p..Len(ps.toks) :
              \/ j = Len(ps.toks)
              \/ ~ \/ ps.toks[j + 1].kind = "WHITESPACE"
                   \/ (ps.toks[j + 1].kind = "TEXT" /\ Ok(token_text(ps, j)))})

AnyText(t) == TRUE

HasText(ps, from, to) == \E i \in from..(to - 1) : KindAt(ps, i) = "TEXT"

AfterNewline(ps, j) == IF KindAt(ps, j) = "NEWLINE" THEN j + 1 ELSE j

\* The headered form: header line, dashed line, at least one body row.
IsHeaderedTable(ps) ==
    LET j1 == SkipLine(ps, ps.pos, AnyText)
        saw_text == \E i \in ps.pos..(j1 - 1) :
                        KindAt(ps, i) = "TEXT" /\ IsHeaderText(token_text(ps, i))
        p1 == AfterNewline(ps, j1)
        j2 == SkipLine(ps, p1, IsDashText)
        saw_dash == KindAt(ps, j2) # "TEXT" /\ HasText(ps, p1, j2)
        p2 == AfterNewline(ps, j2)
        saw_row == KindAt(ps, p2) \in {"TEXT", "WHITESPACE"}
    IN saw_text /\ saw_dash /\ saw_row

\* The headerless form: dashed line, body row, closing dashed line.
IsHeaderlessTable(ps) ==
    LET j1 == SkipLine(ps, ps.pos, IsLooseDashText)
        saw_dash == HasText(ps, ps.pos, j1)
        p1 == AfterNewline(ps, j1)
        k == SkipKinds(ps, p1, {"TEXT", "WHITESPACE"})
        saw_row == k > p1
        p3 == IF KindAt(ps, k) \in {"BlankLine", "NEWLINE"} THEN k + 1 ELSE k
        m == SkipLine(ps, p3, IsDashText)
        saw_closing_dash == HasText(ps, p3, m)
    IN saw_dash /\ saw_row /\ saw_closing_dash

is_simple_table_start(ps) ==
    at_bol(ps) /\ (IsHeaderedTable(ps) \/ IsHeaderlessTable(ps))

RECURSIVE SimpleTableLoop(_)
SimpleTableLoop(ps) ==
    IF at_eof(ps) THEN ps
    ELSE LET j == SkipKinds(ps, ps.pos, {"TEXT", "WHITESPACE"})
             saw_content == j > ps.pos
             temp_pos == AfterNewline(ps, j)
         IN IF ~saw_content THEN ps
            ELSE SimpleTableLoop(AdvanceIf(AdvanceTo(ps, temp_pos), EolKinds))

parse_simple_table(ps) == FinishNode(ps, "SimpleTable", SimpleTableLoop(StartNode(ps)))

parse_standalone_latex_command(ps) ==
    LET a == AdvanceWhile(ps, {"WHITESPACE"})
        b == advance(StartNode(a))
        c == AdvanceIf(b, {"NEWLINE"})
    IN FinishNode(a, "LatexCommand", c)

is_standalone_latex_command(ps) ==
    /\ at(ps, "LatexCommand")
    /\ LET i == SkipKindsBack(ps, ps.pos, {"WHITESPACE"})
       IN i = 0 \/ KindAt(ps, i - 1) = "NEWLINE"
    /\ LET j == SkipKinds(ps, ps.pos + 1, {"WHITESPACE"})
       IN KindAt(ps, j) \in {"NEWLINE", "EOF"}

MaxAtxLevel == 6
MaxHeadingIndent == 3

is_atx_heading_start(ps) ==
    /\ at_bol(ps)
    /\ LET pos == SkipKinds(ps, ps.pos, {"WHITESPACE"})
       IN /\ LensBetween(ps, ps.pos, pos) <= MaxHeadingIndent
          /\ KindAt(ps, pos) = "TEXT"
          /\ LET t == token_text(ps, pos)
             IN Len(t) > 0 /\ Len(t) <= MaxAtxLevel /\ AllIn(t, {"#"})
          /\ KindAt(ps, pos + 1) = "WHITESPACE"

SetextInline == {"TEXT", "WHITESPACE", "LatexCommand", "Link", "ImageLink"}

is_setext_heading_start(ps) ==
    /\ at_bol(ps)
    /\ LET j == SkipKinds(ps, ps.pos, SetextInline)
           saw_text == \E i \in ps.pos..(j - 1) :
                           KindAt(ps, i) = "TEXT" /\ Trim(token_text(ps, i)) # <<>>
           pos == j + 1
       IN /\ saw_text
          /\ KindAt(ps, j) = "NEWLINE"
          /\ KindAt(ps, pos) = "TEXT"
          /\ LET underline == token_text(ps, pos)
             IN underline # <<>> /\ (AllIn(underline, {"="}) \/ AllIn(underline, {"-"}))
          /\ LET p2 == IF KindAt(ps, pos + 1) = "WHITESPACE" THEN pos + 2 ELSE pos + 1
             IN KindAt(ps, p2) = "NEWLINE"

RECURSIVE AtxLeadingSpaces(_)
AtxLeadingSpaces(ps) ==
    IF at(ps, "WHITESPACE") /\ LenAt(ps, ps.pos) <= MaxHeadingIndent
    THEN AtxLeadingSpaces(advance(ps))
    ELSE ps

parse_atx_heading(ps) ==
    LET a == AtxLeadingSpaces(StartNode(ps))
        b == AdvanceNodeIf(a, "TEXT", "AtxHeadingMarker")
        c == AdvanceIf(b, {"WHITESPACE"})
        d == FinishNode(c, "HeadingContent", AdvanceUntil(StartNode(c), {"NEWLINE"}))
        e == AdvanceIf(d, {"NEWLINE"})
    IN FinishNode(ps, "Heading", e)

parse_setext_heading(ps) ==
    LET h == StartNode(ps)
        a == FinishNode(h, "HeadingContent", AdvanceUntil(StartNode(h), {"NEWLINE"}))
        b == AdvanceIf(a, {"NEWLINE"})
        c == AdvanceNodeIf(b, "TEXT", "SetextHeadingUnderline")
        d == AdvanceIf(c, {"WHITESPACE"})
        e == AdvanceIf(d, {"NEWLINE"})
    IN FinishNode(ps, "Heading", e)

(***************************************************************************)
(* parse_blocks.  The blocks under cfg(debug_assertions) are not part of a *)
(* release build and are left out.  A stop closure is given by the fence   *)
(* length it compares with; NoStop is the closure |_| false.               *)
(***************************************************************************)
NoStop == -1

\* The branch one parse_blocks iteration takes.
BlockHandler(ps) ==
    LET kind == KindAt(ps, ps.pos)
    IN IF is_atx_heading_start(ps) THEN "atx_heading"
       ELSE IF is_setext_heading_start(ps) THEN "setext_heading"
       ELSE IF is_simple_table_start(ps) THEN "simple_table"
       ELSE IF kind = "FrontmatterDelim" THEN "frontmatter"
       ELSE IF kind = "CodeFenceMarker" THEN "code_block"
       ELSE IF kind = "DivMarker" THEN "fenced_div"
       ELSE IF kind = "BlockMathMarker" THEN "block_math"
       ELSE IF kind = "CommentStart" THEN "comment"
       ELSE IF kind = "LatexCommand" /\ is_standalone_latex_command(ps)
            THEN "standalone_latex_command"
       ELSE IF kind = "LatexEnvBegin" THEN "latex_environment"
       ELSE IF kind = "BlockQuoteMarker" THEN "block_quote"
       ELSE IF kind = "ListMarker" THEN "list"
       ELSE IF kind = "BlankLine" THEN "blank_line"
       ELSE IF kind \in {"WHITESPACE", "NEWLINE"} THEN "advance"
       ELSE "paragraph"

ContinueHandlers == {"atx_heading", "setext_heading", "simple_table"}

RECURSIVE parse_blocks(_, _)
RECURSIVE parse_fenced_div(_)
RECURSIVE RunHandler(_, _)

RunHandler(ps, h) ==
    CASE h = "atx_heading" -> parse_atx_heading(ps)
      [] h = "setext_heading" -> parse_setext_heading(ps)
      [] h = "simple_table" -> parse_simple_table(ps)
      [] h = "frontmatter" -> parse_frontmatter(ps)
      [] h = "code_block" -> parse_code_block(ps)
      [] h = "fenced_div" -> parse_fenced_div(ps)
      [] h = "block_math" -> parse_block_math(ps)
      [] h = "comment" -> parse_comment(ps)
      [] h = "standalone_latex_command" -> parse_standalone_latex_command(ps)
      [] h = "latex_environment" -> parse_latex_environment(ps)
      [] h = "block_quote" -> parse_block_quote(ps)
      [] h = "list" -> parse_list(ps, 0)
      [] h = "blank_line" -> parse_blank_line(ps)
      [] h = "advance" -> advance(ps)
      [] h = "paragraph" -> parse_paragraph(ps)

\* What follows the handler in the loop body: the heading and table branches
\* "continue" (a branch that stood still would then repeat for ever, which is
\* recorded as "blocks_no_progress"); the others reach the safety check.
AfterHandler(old, h, ps) ==
    IF ps.abort # "none" THEN ps
    ELSE IF h \in ContinueHandlers
    THEN IF ps.pos = old.pos THEN [ps EXCEPT !.abort = "blocks_no_progress"] ELSE ps
    ELSE IF ps.pos = old.pos /\ ~at_eof(ps) THEN [ps EXCEPT !.abort = "blocks_stuck"]
    ELSE ps

\* One iteration of the while loop of parse_blocks.
BlockStepWith(ps, h) == AfterHandler(ps, h, RunHandler(ps, h))

BlockStep(ps) == BlockStepWith(ps, BlockHandler(ps))

StopAtLonger(ps, open_len) == at(ps, "DivMarker") /\ LenAt(ps, ps.pos) >= open_len

StopAt(ps, open_len) == at(ps, "DivMarker") /\ LenAt(ps, ps.pos) = open_len

parse_blocks(ps, open_len) ==
    IF at_eof(ps) \/ ps.abort # "none" \/ StopAt(ps, open_len) THEN ps
    ELSE parse_blocks(BlockStep(ps), open_len)

parse_fenced_div(ps) ==
    LET div == StartNode(ps)
        open_len == LenAt(ps, ps.pos)
        o1 == advance(StartNode(div))
        o2 == AdvanceUntil(o1, EolKinds)
        o3 == AdvanceIf(o2, EolKinds)
        opened == FinishNode(div, "DivFenceOpen", o3)
        content == FinishNode(opened, "DivContent",
                              parse_blocks(StartNode(opened), open_len))
        closed == IF StopAt(content, open_len)
                  THEN FinishNode(content, "DivFenceClose", advance(StartNode(content)))
                  ELSE content
    IN FinishNode(ps, "FencedDiv", closed)

\* Parser::parse: ROOT > DOCUMENT > blocks.
Root(ps) == Node("ROOT", <<Node("DOCUMENT", ps.out)>>)

\* parse(input) as a pure function: the tree, and the panic if there was one.
ParseResult(ps) == [tree |-> Root(ps), abort |-> ps.abort]

parse(inp) == ParseResult(parse_blocks(ParserNew(inp, tokenize(inp)), NoStop))

StripCR(l) == IF l # <<>> /\ l[Len(l)] = "\r" THEN SubSeq(l, 1, Len(l) - 1) ELSE l

\* str::lines()
RECURSIVE lines(_)
lines(inp) ==
    IF inp = <<>> THEN <<>>
    ELSE LET e == RunEnd(inp, 0, {c \in {inp[i] : i \in 1..Len(inp)} : c # NL})
         IN <<StripCR(Slice(inp, 0, e))>>
            \o (IF e >= Len(inp) THEN <<>> ELSE lines(Slice(inp, e + 1, Len(inp))))

(***************************************************************************)
(*                             FORMATTER                                   *)
(* The output String is a sequence of characters threaded through the      *)
(* operators.  A configuration is a record {line_width, math_indent, wrap, *)
(* algo}: wrap is "None", "Preserve" or "Reflow"; algo is the algorithm    *)
(* WrapAlgorithm::new() stands for in the build, "FirstFit" or             *)
(* "OptimalFit" (textwrap's choice by its smawk feature).                  *)
(***************************************************************************)
ends_with(t, suffix) ==
    Len(t) >= Len(suffix) /\ Slice(t, Len(t) - Len(suffix), Len(t)) = suffix

\* str::trim_end_matches over a set of characters
TrimEndIn(t, cs) ==
    LET keep == {i \in 1..Len(t) : t[i] \notin cs}
    IN IF keep = {} THEN <<>> ELSE SubSeq(t, 1, CHOOSE x \in keep : \A y \in keep : y <= x)

trim_end(t) == TrimEndIn(t, TrimChars)

saturating_sub(a, b) == IF a >= b THEN a - b ELSE 0

IsNode(e) == ~e.leaf

\* node.children(): the child nodes, without the tokens
children(node) == SelectSeq(node.kids, IsNode)

\* textwrap::core::Word::from(s), then "w.whitespace = " "" when white space
\* followed the piece.
MakeWord(piece) ==
    LET word == TrimEndIn(piece.text, {" "})
    IN [word |-> word,
        whitespace |-> IF piece.whitespace_after THEN <<" ">>
                       ELSE Slice(piece.text, Len(word), Len(piece.text))]

\* The pieces of build_words from child i on; pending is pending_space.
RECURSIVE BuildPieces(_, _, _, _)
BuildPieces(kids, i, pieces, pending) ==
    IF i > Len(kids) THEN pieces
    ELSE LET el == kids[i]
             flushed == IF pending /\ pieces # <<>>
                        THEN [pieces EXCEPT ![Len(pieces)].whitespace_after = TRUE]
                        ELSE pieces
         IN IF el.leaf /\ el.kind \in {"WHITESPACE", "NEWLINE"}
            THEN BuildPieces(kids, i + 1, pieces, TRUE)
            ELSE IF el.leaf /\ el.kind = "InlineMathMarker"
            THEN LET closers == {j \in (i + 1)..Len(kids) :
                                    kids[j].leaf /\ kids[j].kind = "InlineMathMarker"}
                     last == IF closers = {} THEN Len(kids) ELSE MinOf(closers)
                     acc == Flatten([k \in 1..(last - i + 1) |-> NodeText(kids[i + k - 1])])
                 IN BuildPieces(kids, last + 1,
                                Append(flushed, [text |-> acc, whitespace_after |-> FALSE]),
                                FALSE)
            ELSE BuildPieces(kids, i + 1,
                             Append(flushed, [text |-> NodeText(el), whitespace_after |-> FALSE]),
                             FALSE)

build_words(node) ==
    LET pieces == BuildPieces(node.kids, 1, <<>>, FALSE)
    IN <<>> \o [i \in 1..Len(pieces) |-> MakeWord(pieces[i])]

\* textwrap::wrap_algorithms::wrap_first_fit; the result is the sequence of
\* the start indices (from 0) of the lines.
RECURSIVE FirstFitStarts(_, _, _, _, _)
FirstFitStarts(words, line_width, idx, start, width) ==
    IF idx >= Len(words) THEN <<start>>
    ELSE LET w == words[idx + 1]
             brk == width + Len(w.word) > line_width /\ idx > start
             width0 == IF brk THEN 0 ELSE width
         IN (IF brk THEN <<start>> ELSE <<>>)
            \o FirstFitStarts(words, line_width, idx + 1, IF brk THEN idx ELSE start,
                              width0 + Len(w.word) + Len(w.whitespace))

\* textwrap's Penalties::new()
NlinePenalty == 1000
OverflowPenalty == 2500
ShortLastLineFraction == 4
ShortLastLinePenalty == 25

\* widths[j] - widths[i]: the widths of the words i+1..j with their white space.
RECURSIVE WidthsBetween(_, _, _)
WidthsBetween(words, i, j) ==
    IF j <= i THEN 0
    ELSE Len(words[j].word) + Len(words[j].whitespace) + WidthsBetween(words, i, j - 1)

\* Width of the line of the words i+1..j (fragments[i..j]).
LineWidthOf(words, i, j) == WidthsBetween(words, i, j) - Len(words[j].whitespace)

\* The cost wrap_optimal_fit gives a line of width lw that ends at fragment j
\* and starts at fragment i, on top of before, the least cost of breaking
\* before fragments[i].
LineCost(n, target_width, i, j, lw, before) ==
    before + NlinePenalty
    + (IF lw > target_width THEN (lw - target_width) * OverflowPenalty
       ELSE IF j < n THEN (target_width - lw) * (target_width - lw)
       ELSE IF i + 1 = j /\ lw * ShortLastLineFraction < target_width
            THEN ShortLastLinePenalty
       ELSE 0)

\* The leftmost least entry of costs, counted from 0.
LeastCost(costs) ==
    CHOOSE i \in 0..(Len(costs) - 1) :
        \A k \in 0..(Len(costs) - 1) :
            costs[i + 1] < costs[k + 1] \/ (costs[i + 1] = costs[k + 1] /\ i <= k)

MinimumOf(costs) == [prev |-> LeastCost(costs), cost |-> costs[LeastCost(costs) + 1]]

\* The column minima: minima[j + 1] = (the best break before a line ending at
\* j, its cost), the leftmost break on equal costs.
RECURSIVE OptimalMinima(_, _, _)
OptimalMinima(words, line_width, minima) ==
    IF Len(minima) > Len(words) THEN minima
    ELSE OptimalMinima(words, line_width,
             Append(minima, MinimumOf(<<>> \o [i \in 1..Len(minima) |->
                 LineCost(Len(words), IF line_width >= 1 THEN line_width ELSE 1,
                          i - 1, Len(minima),
                          LineWidthOf(words, i - 1, Len(minima)), minima[i].cost)])))

RECURSIVE OptimalStarts(_, _)
OptimalStarts(minima, pos) ==
    LET prev == minima[pos + 1].prev
    IN IF prev = 0 THEN <<0>> ELSE Append(OptimalStarts(minima, prev), prev)

\* WrapAlgorithm::new().wrap(&words, &[line_width]): the lines as slices of words.
wrap(algo, words, line_width) ==
    LET starts == IF algo = "FirstFit" THEN FirstFitStarts(words, line_width, 0, 0, 0)
                  ELSE OptimalStarts(OptimalMinima(words, line_width,
                                                   <<[prev |-> 0, cost |-> 0]>>),
                                     Len(words))
    IN [l \in 1..Len(starts) |->
           Slice(words, starts[l],
                 IF l < Len(starts) THEN starts[l + 1] ELSE Len(words))]

\* One wrapped line as text: the words with the white space between them.
LineText(line) ==
    Flatten([i \in 1..Len(line) |->
                line[i].word \o (IF i < Len(line) THEN line[i].whitespace ELSE <<>>)])

wrapped_lines_for_paragraph(cfg, node, width) ==
    LET wrapped == wrap(cfg.algo, build_words(node), width)
    IN [l \in 1..Len(wrapped) |-> LineText(wrapped[l])]

is_block_element(kind) ==
    kind \in {"PARAGRAPH", "List", "BlockQuote", "MathBlock", "CodeBlock", "SimpleTable"}

WrapMode(cfg) == IF cfg.wrap = "None" THEN "Reflow" ELSE cfg.wrap

\* Each line followed by "\n", with a prefix before it.
PrefixedLines(prefix, ls) == Flatten([l \in 1..Len(ls) |-> prefix \o ls[l] \o <<NL>>])

\* The text of the last child node of a kind ("None" when there is none), as
\* the loops "for child in node.children()" that keep the last match leave it.
LastChild(node, kind) ==
    LET ks == children(node)
        found == {i \in 1..Len(ks) : ks[i].kind = kind}
    IN IF found = {} THEN Node("None", <<>>)
       ELSE ks[CHOOSE x \in found : \A y \in found : y <= x]

HeadingLevel(node) ==
    LET ks == children(node)
        found == {i \in 1..Len(ks) : ks[i].kind \in {"AtxHeadingMarker", "SetextHeadingUnderline"}}
        last == ks[CHOOSE x \in found : \A y \in found : y <= x]
        hashes == advance_while(NodeText(last), 0, {"#"})
    IN IF found = {} THEN 1
       ELSE IF last.kind = "AtxHeadingMarker"
            THEN (IF hashes < 1 THEN 1 ELSE IF hashes > MaxAtxLevel THEN MaxAtxLevel ELSE hashes)
            ELSE IF AllIn(NodeText(last), {"="}) THEN 1 ELSE 2

HeadingTextKept(node) == Trim(NodeText(LastChild(node, "HeadingContent")))

HeadingText(node) ==
    LET c == LastChild(node, "HeadingContent")
        t == trim_end(NodeText(c))
        trimmed_hash == TrimEndIn(t, {"#"})
    IN IF c.kind = "None" THEN NodeText(node)
       ELSE Trim(IF Len(trimmed_hash) # Len(t) THEN trim_end(trimmed_hash) ELSE t)

\* node.next_sibling() is a block element
NextSiblingIsBlock(sibs, i) ==
    LET later == {j \in (i + 1)..Len(sibs) : IsNode(sibs[j])}
    IN later # {} /\ is_block_element(sibs[MinOf(later)].kind)

FormatHeading(sibs, i, out) ==
    LET o == out \o Repeat(<<"#">>, HeadingLevel(sibs[i])) \o <<" ">>
               \o HeadingText(sibs[i]) \o <<NL>>
    IN IF NextSiblingIsBlock(sibs, i) /\ ~ends_with(o, <<NL, NL>>) THEN o \o <<NL>> ELSE o

\* Append text, and a newline unless what must end with one (the text or the
\* whole output) already does.
WithNewline(out, text, whole) ==
    LET o == out \o text
    IN IF ends_with(IF whole THEN o ELSE text, <<NL>>) THEN o ELSE o \o <<NL>>

FormatParagraph(cfg, node, out) ==
    IF WrapMode(cfg) = "Preserve" THEN WithNewline(out, NodeText(node), TRUE)
    ELSE LET ls == wrapped_lines_for_paragraph(cfg, node, cfg.line_width)
             joined == Flatten([l \in 1..Len(ls) |->
                                   (IF l > 1 THEN <<NL>> ELSE <<>>) \o ls[l]])
         IN WithNewline(out, joined, TRUE)

FormatQuoteParagraph(cfg, node, out) ==
    IF WrapMode(cfg) = "Preserve"
    THEN out \o PrefixedLines(<<">", " ">>, lines(NodeText(node)))
    ELSE out \o PrefixedLines(<<">", " ">>,
                 wrapped_lines_for_paragraph(cfg, node, saturating_sub(cfg.line_width, 2)))

FormatMathBlock(cfg, node, out) ==
    LET math_content == LastChild(node, "MathContent")
        label == LastChild(node, "Attribute")
        ls == IF math_content.kind = "None" THEN <<>> ELSE lines(Trim(NodeText(math_content)))
        body == [l \in 1..Len(ls) |-> Repeat(<<" ">>, cfg.math_indent) \o trim_end(ls[l])]
    IN out \o <<"$", "$", NL>> \o PrefixedLines(<<>>, body) \o <<"$", "$">>
           \o (IF label.kind = "None" THEN <<>> ELSE <<" ">> \o Trim(NodeText(label)))
           \o <<NL>>

\* The marker, the indent and the wrapped lines of a list item.
FormatListItem(cfg, node, indent, out) ==
    LET ks == node.kids
        markers == {i \in 1..Len(ks) : ks[i].leaf /\ ks[i].kind = "ListMarker"}
        marker == IF markers = {} THEN <<>>
                  ELSE ks[CHOOSE x \in markers : \A y \in markers : y <= x].text
        content_start == MinOf({i \in 1..(Len(ks) + 1) :
                                  i = Len(ks) + 1 \/ ~(ks[i].leaf /\ ks[i].kind = "WHITESPACE")})
        local_indent == Len(Flatten([i \in 1..(content_start - 1) |-> ks[i].text]))
        total_indent == indent + local_indent
        hanging == Len(marker) + 1 + total_indent
        available_width == saturating_sub(cfg.line_width, hanging)
        all == build_words(node)
        words == IF all # <<>> /\ all[1].word = marker THEN Tail(all) ELSE all
        wrapped == wrap(cfg.algo, words, available_width)
    IN out \o Flatten([l \in 1..Len(wrapped) |->
                          (IF l = 1 THEN Repeat(<<" ">>, total_indent) \o marker \o <<" ">>
                           ELSE Repeat(<<" ">>, hanging))
                          \o LineText(wrapped[l]) \o <<NL>>])

ListItemIndent(node, indent) ==
    LET ks == node.kids
        content_start == MinOf({i \in 1..(Len(ks) + 1) :
                                  i = Len(ks) + 1 \/ ~(ks[i].leaf /\ ks[i].kind = "WHITESPACE")})
    IN indent + Len(Flatten([i \in 1..(content_start - 1) |-> ks[i].text]))

RECURSIVE format_node(_, _, _, _, _)
RECURSIVE FormatEach(_, _, _, _, _, _)

\* The loops over the children of a node, from child i on.  how tells the
\* loop: "document" (ROOT | DOCUMENT), "quote" (BlockQuote), "nodes" (List and
\* the content of a div), "lists" (the nested lists of a ListItem).
FormatEach(cfg, kids, i, indent, out, how) ==
    IF i > Len(kids) THEN out
    ELSE LET el == kids[i]
             o == IF el.leaf
                  THEN IF how = "document" /\ el.kind \notin {"WHITESPACE", "NEWLINE"}
                       THEN out \o el.text
                       ELSE out
                  ELSE IF how = "quote" /\ el.kind = "PARAGRAPH"
                       THEN FormatQuoteParagraph(cfg, el, out)
                  ELSE IF how = "quote" /\ el.kind = "BlankLine" THEN out \o <<">", NL>>
                  ELSE IF how = "lists" /\ el.kind # "List" THEN out
                  ELSE IF how = "nodes" /\ el.kind = "DOCUMENT"
                       THEN FormatEach(cfg, el.kids, 1, indent, out, "nodes")
                  ELSE format_node(cfg, kids, i, indent, out)
         IN FormatEach(cfg, kids, i + 1, indent, o, how)

\* Formatter::format_node on the node sibs[i]; the result is self.output.
format_node(cfg, sibs, i, indent, out) ==
    LET node == sibs[i]
        kind == node.kind
        text == NodeText(node)
    IN CASE kind \in {"ROOT", "DOCUMENT"} -> FormatEach(cfg, node.kids, 1, indent, out, "document")
         [] kind = "Heading" -> FormatHeading(sibs, i, out)
         [] kind \in {"LatexEnvironment", "Comment", "CodeBlock", "FRONTMATTER"} ->
                WithNewline(out, text, FALSE)
         [] kind = "BlockQuote" -> FormatEach(cfg, node.kids, 1, indent, out, "quote")
         [] kind = "PARAGRAPH" -> FormatParagraph(cfg, node, out)
         [] kind = "List" -> FormatEach(cfg, node.kids, 1, indent, out, "nodes")
         [] kind = "InlineMath" -> out \o NodeText(Node("InlineMath", children(node)))
         [] kind = "ListItem" ->
                FormatEach(cfg, node.kids, 1, ListItemIndent(node, indent) + 2,
                           FormatListItem(cfg, node, indent, out), "lists")
         [] kind = "FencedDiv" ->
                LET fence_open == LastChild(node, "DivFenceOpen")
                    div_content == LastChild(node, "DivContent")
                    fence_close == LastChild(node, "DivFenceClose")
                    o1 == IF fence_open.kind = "None" THEN out ELSE out \o NodeText(fence_open)
                    o2 == IF div_content.kind = "None" THEN o1
                          ELSE FormatEach(cfg, div_content.kids, 1, indent, o1, "nodes")
                IN IF fence_close.kind = "None" THEN o2
                   ELSE WithNewline(o2, NodeText(fence_close), FALSE)
         [] kind = "InlineMathMarker" -> out \o Trim(text)
         [] kind = "MathBlock" -> FormatMathBlock(cfg, node, out)
         [] OTHER -> out \o text

format_tree(tree, cfg) == format_node(cfg, <<tree>>, 1, 0, <<>>)

\* The characters from i on that are no "\r" before a "\n".
RECURSIVE WithoutCR(_, _)
WithoutCR(inp, i) ==
    IF i > Len(inp) THEN <<>>
    ELSE (IF inp[i] = "\r" /\ i < Len(inp) /\ inp[i + 1] = NL THEN <<>> ELSE <<inp[i]>>)
         \o WithoutCR(inp, i + 1)

\* str::replace("\r\n", "\n")
normalize_line_endings(inp) ==
    IF \A i \in 1..Len(inp) : inp[i] # "\r" THEN inp ELSE WithoutCR(inp, 1)

\* lib.rs format as a function: the output, or the panic that ended the run.
FormatParsed(r, cfg) ==
    IF r.abort # "none" THEN [abort |-> r.abort, text |-> <<>>]
    ELSE [abort |-> "none", text |-> format_tree(r.tree, cfg)]

format(inp, cfg) == FormatParsed(parse(normalize_line_endings(inp)), cfg)

(***************************************************************************)
(*                    BlockParser (block_parser.rs)                        *)
(* The line-based parser: a first pass over the lines builds a flat        *)
(* document, a second pass (resolve_containers) builds the block quotes.    *)
(* A line is the sequence of its characters; None is written -1.           *)
(***************************************************************************)
MaxFenceIndent == 3

strip_leading_spaces(line) ==
    LET n == MinOf({advance_while(line, 0, {" "}), MaxFenceIndent})
    IN Slice(line, n, Len(line))

get_fence_count(line, fence_char) ==
    IF CharAt(line, 0) # fence_char THEN -1 ELSE advance_while(line, 0, {fence_char})

MinFenceLen == 3

\* The closing test of the content loop of try_parse_fenced_code_block.
IsClosingFence(line, fence_char, fence_count) ==
    LET trimmed_line == strip_leading_spaces(line)
        closing_count == get_fence_count(trimmed_line, fence_char)
    IN /\ closing_count # -1
       /\ closing_count >= fence_count
       /\ Trim(Slice(trimmed_line, closing_count, Len(trimmed_line))) = <<>>

\* BlockParser::try_parse_fenced_code_block with self.pos = pos: whether it
\* parsed a block, its fence, and the line index (self.pos) where the content
\* loop stopped: the closing fence when found_closing, else the end.
try_parse_fenced_code_block(ls, pos) ==
    LET no == [ok |-> FALSE, fence_char |-> NoChar, fence_count |-> 0,
               found_closing |-> FALSE, stop |-> pos]
    IN IF pos >= Len(ls) THEN no
       ELSE LET trimmed == strip_leading_spaces(ls[pos + 1])
                fence_char == IF get_fence_count(trimmed, BT) # -1 THEN BT
                              ELSE IF get_fence_count(trimmed, "~") # -1 THEN "~"
                              ELSE NoChar
                fence_count == get_fence_count(trimmed, fence_char)
                blank_before == pos = 0 \/ Trim(ls[pos]) = <<>>
                stop == MinOf({j \in (pos + 1)..Len(ls) :
                                  j = Len(ls) \/ IsClosingFence(ls[j + 1], fence_char, fence_count)})
            IN IF fence_char = NoChar \/ fence_count < MinFenceLen \/ ~blank_before THEN no
               ELSE [ok |-> TRUE, fence_char |-> fence_char, fence_count |-> fence_count,
                     found_closing |-> stop < Len(ls), stop |-> stop]

NoNode == Node("None", <<>>)

\* str::trim_start()
TrimStart(t) == Slice(t, advance_while(t, 0, TrimChars), Len(t))

has_blank_line_before(ls, pos) == pos = 0 \/ Trim(ls[pos]) = <<>>

\* BlockParser::try_parse_atx_heading with self.pos = pos < Len(ls): the
\* Heading node, or NoNode when it returns false.
try_parse_atx_heading(ls, pos) ==
    LET trimmed == strip_leading_spaces(ls[pos + 1])
        hashes == advance_while(trimmed, 0, {"#"})
        after_hashes == Slice(trimmed, hashes, Len(trimmed))
        content == TrimStart(after_hashes)
        keep == {i \in 1..Len(content) : content[i] \notin {"#", " "}}
        text == IF keep = {} THEN <<>>
                ELSE trim_end(Slice(content, 0, CHOOSE x \in keep : \A y \in keep : y <= x))
    IN IF \/ hashes = 0
          \/ hashes > MaxAtxLevel
          \/ CharAt(after_hashes, 0) # " "
          \/ ~has_blank_line_before(ls, pos)
       THEN NoNode
       ELSE Node("Heading",
                 <<Node("AtxHeadingMarker",
                        <<Leaf("AtxHeadingMarker", Slice(trimmed, 0, hashes))>>),
                   Node("HeadingContent", <<Leaf("TEXT", text)>>)>>)

\* The CodeBlock node that try_parse_fenced_code_block builds when it returned
\* b at self.pos = pos.
CodeBlockNode(ls, pos, b) ==
    LET trimmed == strip_leading_spaces(ls[pos + 1])
        info_string == Trim(Slice(trimmed, b.fence_count, Len(trimmed)))
        closing == strip_leading_spaces(ls[b.stop + 1])
    IN Node("CodeBlock",
            <<Node("CodeFenceOpen",
                   <<Leaf("CodeFenceMarker", Slice(trimmed, 0, b.fence_count))>>
                   \o (IF info_string # <<>> THEN <<Leaf("CodeInfo", info_string)>>
                       ELSE <<>>))>>
            \o (IF b.stop > pos + 1
                THEN <<Node("CodeContent",
                            Flatten([i \in 1..(b.stop - pos - 1) |->
                                (IF i > 1 THEN <<Leaf("NEWLINE", <<NL>>)>> ELSE <<>>)
                                \o <<Leaf("TEXT", ls[pos + 1 + i])>>]))>>
                ELSE <<>>)
            \o (IF b.found_closing
                THEN <<Node("CodeFenceClose",
                            <<Leaf("CodeFenceMarker",
                                   Slice(closing, 0, get_fence_count(closing, b.fence_char)))>>)>>
                ELSE <<>>))

\* BlockParser::try_parse_paragraph at a line that is not blank: the index of
\* the line where the loop stops, the next blank line or the end.
ParagraphEnd(ls, pos) ==
    MinOf({j \in pos..Len(ls) : j = Len(ls) \/ Trim(ls[j + 1]) = <<>>})

try_parse_paragraph(ls, pos) ==
    Node("PARAGRAPH",
         Flatten([i \in 1..(ParagraphEnd(ls, pos) - pos) |->
                     <<Leaf("TEXT", ls[pos + i]), Leaf("NEWLINE", <<NL>>)>>]))

\* The loop of BlockParser::parse_document: the children of DOCUMENT.
RECURSIVE BlockParserDocument(_, _, _)
BlockParserDocument(ls, pos, out) ==
    IF pos >= Len(ls) THEN out
    ELSE IF Trim(ls[pos + 1]) = <<>>
    THEN BlockParserDocument(ls, pos + 1,
             Append(out, Node("BlankLine", <<Leaf("BlankLine", ls[pos + 1])>>)))
    ELSE IF try_parse_atx_heading(ls, pos) # NoNode
    THEN BlockParserDocument(ls, pos + 1, Append(out, try_parse_atx_heading(ls, pos)))
    ELSE IF try_parse_fenced_code_block(ls, pos).ok
    THEN LET b == try_parse_fenced_code_block(ls, pos)
         IN BlockParserDocument(ls, b.stop + (IF b.found_closing THEN 1 ELSE 0),
                                Append(out, CodeBlockNode(ls, pos, b)))
    ELSE BlockParserDocument(ls, ParagraphEnd(ls, pos),
                             Append(out, try_parse_paragraph(ls, pos)))

FirstLine(text) == IF lines(text) = <<>> THEN <<>> ELSE lines(text)[1]

is_valid_blockquote_line(line) ==
    \E n \in 0..MaxFenceIndent :
        /\ \A i \in 1..n : CharAt(line, i - 1) = " "
        /\ CharAt(line, n) = ">"

IsQuoteParagraph(node) ==
    node.kind = "PARAGRAPH" /\ is_valid_blockquote_line(FirstLine(NodeText(node)))

\* try_identify_blockquote when the child at start (from 0) opens a quote:
\* the index after the run of quote paragraphs and blank lines.
try_identify_blockquote(kids, start) ==
    MinOf({e \in (start + 1)..Len(kids) :
              \/ e = Len(kids)
              \/ ~(IsQuoteParagraph(kids[e + 1]) \/ kids[e + 1].kind = "BlankLine")})

\* The content lines build_blockquote_node takes from one node.
QuoteContentLines(node) ==
    IF node.kind = "BlankLine" THEN <<<<>>>>
    ELSE LET ls == lines(NodeText(node))
             marked == SelectSeq(ls, LAMBDA l : CharAt(TrimStart(l), 0) = ">")
         IN [i \in 1..Len(marked) |->
                LET stripped == Tail(TrimStart(marked[i]))
                IN IF CharAt(stripped, 0) = " " THEN Tail(stripped) ELSE stripped]

\* [String]::join
RECURSIVE Join(_, _)
Join(ls, sep) ==
    IF ls = <<>> THEN <<>>
    ELSE IF Len(ls) = 1 THEN ls[1]
    ELSE ls[1] \o sep \o Join(Tail(ls), sep)

RECURSIVE BlockParserParse(_)

\* build_blockquote_node: the sub-parser runs on the content of the quote.
build_blockquote_node(nodes) ==
    LET content == Join(Flatten([i \in 1..Len(nodes) |-> QuoteContentLines(nodes[i])]),
                        <<NL>>)
    IN Node("BlockQuote",
            IF Trim(content) = <<>> THEN <<>>
            ELSE BlockParserParse(content).kids[1].kids)

RECURSIVE resolve_container_children(_, _, _)
resolve_container_children(kids, i, out) ==
    IF i >= Len(kids) THEN out
    ELSE IF IsQuoteParagraph(kids[i + 1])
    THEN resolve_container_children(kids, try_identify_blockquote(kids, i),
             Append(out, build_blockquote_node(
                             SubSeq(kids, i + 1, try_identify_blockquote(kids, i)))))
    ELSE resolve_container_children(kids, i + 1, Append(out, kids[i + 1]))

\* BlockParser::new(input).parse(): the tree after resolve_containers.
BlockParserParse(inp) ==
    Node("ROOT",
         <<Node("DOCUMENT",
                resolve_container_children(BlockParserDocument(lines(inp), 0, <<>>),
                                           0, <<>>))>>)

(***************************************************************************)
(*                     THE PROGRAM AS A STATE MACHINE                      *)
(* Documents are made of at most MaxLines lines drawn from one family of   *)
(* lines; LongDoc is one paragraph of LongLines lines of three words.      *)
(***************************************************************************)
MaxLines == 3
LongLines == 167

QuoteLines ==
    {<<">"," ","a","\n">>,
     <<">"," ","b","\n">>,
     <<">","\n">>,
     <<">"," ",">"," ","c","\n">>,
     <<"b","\n">>,
     <<"\n">>,
     <<"-"," ","a","\n">>,
     <<" "," ","-"," ","b","\n">>,
     <<"c">>}

HeadingLines ==
    {<<"#"," ","a","\n">>,
     <<"#"," ","a"," ","#"," ","#","\n">>,
     <<"#","#"," ","b"," ","#","\n">>,
     <<" "," "," ","#"," ","c","\n">>,
     <<"a","\n">>,
     <<"=","=","=","\n">>,
     <<"-","-","\n">>,
     <<"\n">>}

CodeLines ==
    {<<BT,BT,BT,"\n">>,
     <<BT,BT,BT,BT,"\n">>,
     <<"~","~","~","\n">>,
     <<BT,BT,BT," ","r","\n">>,
     <<"a","\n">>,
     <<"\n">>,
     <<" "," ","b","\n">>,
     <<BT,BT,BT>>}

VerbatimLines ==
    {<<"<","!","-","-","a","-","-",">","\n">>,
     <<"$","$","\n">>,
     <<"x","\n">>,
     <<"-","-","-","\n">>,
     <<":",":",":","\n">>,
     <<":",":",":"," ","{",".","c","}","\n">>,
     <<"\n">>,
     <<"\\","b","e","g","i","n","{","e","}","\n">>,
     <<"\\","e","n","d","{","e","}","\n">>,
     <<"\\","f","o","o","\n">>}

InlineLines ==
    {<<"a"," ","$","x","$"," ","b","\n">>,
     <<"[","l","]","(","u",")","{",".","c","}"," ","c","\n">>,
     <<"!","[","i","]","(","u",")","\n">>,
     <<BT,"c"," ","d",BT," ","e","\n">>,
     <<"a","^","[","n","]"," ","b","\n">>,
     <<"1","."," ","a","\n">>,
     <<"-","-",">","\n">>,
     <<"\\","$"," ","5","\n">>,
     <<"$","5",",","0"," ","a","\n">>,
     <<"[","r","]"," ","!","\n">>,
     <<"x","^","2"," ","~","y","\n">>}

TableLines ==
    {<<"a"," ","b","\n">>,
     <<"-","-"," ","-","-","\n">>,
     <<"1"," ","2","\n">>,
     <<"-","-","-","-","\n">>,
     <<"\n">>,
     <<"+","+","+","\n">>,
     <<" ","\n">>}

LongWordLen == 39

LongWord == [i \in 1..LongWordLen |-> "b"]

WrapLines ==
    {<<"a", " ">> \o LongWord \o <<NL>>,
     <<"a","a"," ","b","b"," ","c","c"," ","d","d"," ","e","e","\n">>,
     <<">"," ","a","a"," ","b","b"," ","c","c"," ","d","d"," ","e","e","\n">>,
     <<"-"," ","a","a"," ","b","b"," ","c","c"," ","d","d"," ","e","e","\n">>,
     <<"-"," ","a"," ","1","."," ","b","\n">>,
     <<"a","\r","\n">>,
     <<"\n">>}

VerbatimBlocks ==
    {<<"<","!","-","-","a","-","-",">","\n">>,
     <<"$","$","\n","x","\n","$","$","\n">>,
     <<BT,BT,BT,"\n","a","\n",BT,BT,BT,"\n">>,
     <<"-","-","-","\n","x","\n","-","-","-","\n">>,
     <<":",":",":"," ","{",".","c","}","\n","<","!","-","-","a","-","-",">","\n",":",":",":","\n">>,
     <<"\n">>}

\* Lines with '>' after several indentations and after text.
MarkerLines ==
    {<<">"," ","a","\n">>,
     <<" "," "," ",">","a","\n">>,
     <<" "," "," "," ",">"," ","a","\n">>,
     <<"\t",">"," ","a","\n">>,
     <<"a"," ",">"," ","b","\n">>,
     <<"a"," ","-"," ","b","\n">>,
     <<"a","\n">>,
     <<"\n">>}

\* Lines with code spans: a span opened by one backtick holding a run of two, a
\* span opened by two holding a run of one, an opener without a closer on its
\* line, and a line with a lone backtick.
SpanLines ==
    {<<BT,"a"," ",BT,BT,"b",BT,"\n">>,
     <<"x"," ",BT,BT,"a",BT,"b",BT,BT,"\n">>,
     <<"x"," ",BT,"a","\n">>,
     <<"b",BT," ","c","\n">>}

Families ==
    {QuoteLines, HeadingLines, CodeLines, VerbatimLines, InlineLines, TableLines,
     WrapLines, VerbatimBlocks, MarkerLines, SpanLines}

DocsOf(family) ==
    {Flatten(s) : s \in UNION {[1..n -> family] : n \in 1..MaxLines}}

\* One paragraph of LongLines lines of three words: six tokens a line.
LongDoc == Flatten([i \in 1..LongLines |-> <<"a", " ", "a", " ", "a", NL>>])

\* Documents of div fences of two lengths, long enough to nest and close.
MaxDivLines == 4

DivLines ==
    {<<":",":",":","\n">>,
     <<":",":",":"," ","a","\n">>,
     <<":",":",":",":","\n">>,
     <<"x","\n">>}

DivDocs == {Flatten(s) : s \in UNION {[1..n -> DivLines] : n \in 1..MaxDivLines}}

\* Documents of display math with indented content lines and a label.
MaxMathLines == 4

MathLines ==
    {<<"$","$","\n">>,
     <<" "," ","x","\n">>,
     <<"y"," ","z","\n">>,
     <<"$","$"," ","{","#","e","}","\n">>}

MathDocs == {Flatten(s) : s \in UNION {[1..n -> MathLines] : n \in 1..MaxMathLines}}

\* Headerless tables: a dashed line, up to MaxBodyRows body lines and, in one
\* document of two, the closing dashed line.
MaxBodyRows == 2

TableDocs ==
    {<<"-","-"," ","-","-",NL>> \o Flatten([i \in 1..k |-> <<"a"," ","b",NL>>]) \o closing :
        k \in 1..MaxBodyRows, closing \in {<<>>, <<"-","-"," ","-","-",NL>>}}

\* Two paragraphs with up to MaxBlankLines blank lines between them.
MaxBlankLines == 2

ParagraphDocs ==
    {<<"a", NL>> \o Repeat(<<NL>>, k) \o <<"b", " ", "c", NL>> : k \in 1..MaxBlankLines}

Docs == UNION {DocsOf(f) : f \in Families} \cup DivDocs \cup MathDocs \cup TableDocs
        \cup ParagraphDocs \cup {LongDoc}

NoParser == ParserNew(<<>>, <<>>)

\* Config values: wrap is None (the formatter then takes Reflow), Reflow or
\* Preserve; algo is what WrapAlgorithm::new() is in the build.
Configs ==
    {[line_width |-> 40, math_indent |-> 0, wrap |-> "Reflow", algo |-> "OptimalFit"],
     [line_width |-> 40, math_indent |-> 0, wrap |-> "Preserve", algo |-> "FirstFit"],
     [line_width |-> 8, math_indent |-> 2, wrap |-> "None", algo |-> "FirstFit"]}

NoConfig == [line_width |-> 0, math_indent |-> 0, wrap |-> "None", algo |-> "FirstFit"]

NoOutput == [abort |-> "none", text |-> <<>>]

\* main.rs Cli: file is whether an input file is named (stdin otherwise).
Clis == [file : BOOLEAN, check : BOOLEAN, write : BOOLEAN]

NoCli == [file |-> FALSE, check |-> FALSE, write |-> FALSE]

\* main reaches fs::write: the else-if branch of --write, with a file named.
\* WritesWhenAsked is the variant that rewrites the file whenever --write is given.
WritesWhenAsked(c) == c.write /\ c.file
WritesFile(c) == ~c.check /\ c.write /\ c.file

\* The exit status of main after format_str returned output for the input.
ExitStatus(c, inp, out) ==
    IF c.check THEN (IF inp # out THEN 1 ELSE 0)
    ELSE IF c.write /\ ~c.file THEN 1
    ELSE 0

VARIABLES
    raw,         \* the document given to format()
    input,       \* the document with "\r\n" replaced, which parse reads
    pc,          \* "start", "lex", "parse", "parsed", "aborted", "formatted", "reformatted",
                 \* "exited"
    lpos,        \* Lexer.pos
    tokens,      \* the Vec<Token> built by tokenize
    parser,      \* the Parser, at the level of the DOCUMENT node
    moved,       \* whether the last parse_blocks iteration advanced Parser.pos
    config,      \* the Config of the formatter
    output,      \* what format returned
    output2,     \* what format returned when given output again
    cli,         \* the Cli that main parsed from the command line
    file,        \* the content of the input file on disk
    status       \* the exit status of the process, -1 while it runs

vars == <<raw, input, pc, lpos, tokens, parser, moved, config, output, output2,
          cli, file, status>>

Init ==
    /\ raw \in Docs
    /\ input = <<>>
    /\ pc = "start"
    /\ lpos = 0
    /\ tokens = <<>>
    /\ parser = NoParser
    /\ moved = TRUE
    /\ config = NoConfig
    /\ output = <<>>
    /\ output2 = NoOutput
    /\ cli = NoCli
    /\ file = raw
    /\ status = -1

\* format replaces "\r\n" and calls parse.
Normalize ==
    /\ pc = "start"
    /\ input' = normalize_line_endings(raw)
    /\ pc' = "lex"
    /\ UNCHANGED <<raw, lpos, tokens, parser, moved, config, output, output2, cli, file, status>>

TokenStart == IF tokens = <<>> THEN 0 ELSE tokens[Len(tokens)].start + tokens[Len(tokens)].len

\* One turn of the loop of tokenize: a call of Lexer::next_token.
NextToken ==
    /\ pc = "lex"
    /\ lpos < Len(input)
    /\ LET t == next_token(input, lpos)
       IN /\ tokens' = Append(tokens, [kind |-> t.kind, len |-> t.len, start |-> TokenStart])
          /\ lpos' = t.pos
    /\ UNCHANGED <<raw, input, pc, parser, moved, config, output, output2, cli, file, status>>

\* tokenize returns and Parser::new takes the tokens.
LexDone ==
    /\ pc = "lex"
    /\ lpos >= Len(input)
    /\ pc' = "parse"
    /\ parser' = ParserNew(input, tokens)
    /\ UNCHANGED <<raw, input, lpos, tokens, moved, config, output, output2, cli, file, status>>

\* One iteration of parse_blocks at the level of the document.
ParseBlocksStep ==
    /\ pc = "parse"
    /\ ~at_eof(parser)
    /\ parser' = BlockStep(parser)
    /\ moved' = (parser'.pos > parser.pos)
    /\ pc' = IF parser'.abort # "none" THEN "aborted" ELSE "parse"
    /\ UNCHANGED <<raw, input, lpos, tokens, config, output, output2, cli, file, status>>

\* parse_blocks of the document reaches the end of the tokens.
ParseDone ==
    /\ pc = "parse"
    /\ at_eof(parser)
    /\ pc' = "parsed"
    /\ UNCHANGED <<raw, input, lpos, tokens, parser, moved, config, output, output2, cli, file, status>>

\* format_tree on the tree that parse returned, under some Config.
Format ==
    /\ pc = "parsed"
    /\ \E cfg \in Configs :
          /\ config' = cfg
          /\ output' = format_tree(Root(parser), cfg)
    /\ pc' = "formatted"
    /\ UNCHANGED <<raw, input, lpos, tokens, parser, moved, output2, cli, file, status>>

\* format called again, on its own output and with the same Config.
Reformat ==
    /\ pc = "formatted"
    /\ output2' = format(output, config)
    /\ pc' = "reformatted"
    /\ UNCHANGED <<raw, input, lpos, tokens, parser, moved, config, output, cli, file, status>>

\* main after format_str returned: --check compares, --write rewrites the
\* file, otherwise the output is printed; then the process exits.
Main ==
    /\ pc = "formatted"
    /\ \E c \in Clis :
          /\ cli' = c
          /\ file' = IF WritesFile(c) THEN output ELSE file
          /\ status' = ExitStatus(c, raw, output)
    /\ pc' = "exited"
    /\ UNCHANGED <<raw, input, lpos, tokens, parser, moved, config, output, output2>>

\* The panic of the parser unwinds through main: the process exits with the
\* status of a panic and nothing is written.
MainPanics ==
    /\ pc = "aborted"
    /\ status = -1
    /\ status' = 101
    /\ UNCHANGED <<raw, input, pc, lpos, tokens, parser, moved, config, output, output2,
                   cli, file>>

Next ==
    \/ Normalize
    \/ NextToken
    \/ LexDone
    \/ ParseBlocksStep
    \/ ParseDone
    \/ Format
    \/ Reformat
    \/ Main
    \/ MainPanics

Spec == Init /\ [][Next]_vars

(***************************************************************************)
(*                              PROPERTIES                                 *)
(***************************************************************************)
Parsed == pc = "parsed"
Aborted == pc = "aborted"

\* C2: when parse returns a tree, the texts of the leaves under ROOT, put
\* together in document order, are the input.
C2_LosslessTree == Parsed => NodeText(Root(parser)) = input

\* C3: the tokens of tokenize are contiguous and do not overlap: each has
\* len >= 1, each starts where the one before ends, and together they cover the
\* bytes read so far, which are all the bytes of the input once tokenize returns.
C3_TokensPartition ==
    /\ \A i \in 1..Len(tokens) : tokens[i].len >= 1
    /\ TokenStart = lpos
    /\ pc # "lex" => lpos = Len(input)

\* C3 witness: a tokenized document with an escaped dollar, a code span and more
\* than three tokens.
C3_Witness ==
    /\ pc # "lex"
    /\ Len(tokens) > 3
    /\ \E i \in 1..Len(tokens) :
          /\ tokens[i].kind = "TEXT"
          /\ input[tokens[i].start + 1] = "$"
          /\ tokens[i].start > 0
          /\ input[tokens[i].start] = "\\"

C5_BlocksAdvance ==
    /\ moved
    /\ parser.abort \notin {"blocks_stuck", "blocks_no_progress", "paragraph_stuck"}

\* C5 witness: a parsed document with a fenced div whose content was parsed by
\* the nested parse_blocks, next to other blocks.
C5_Witness ==
    /\ Parsed
    /\ Len(parser.out) >= 2
    /\ \E i \in 1..Len(parser.out) :
          /\ parser.out[i].kind = "FencedDiv"
          /\ \E k \in 1..Len(parser.out[i].kids) :
                /\ parser.out[i].kids[k].kind = "DivContent"
                /\ parser.out[i].kids[k].kids # <<>>

\* C6: parse aborts on no input but one with an unterminated frontmatter block.
C6_ParseTotal == parser.abort \in {"none", "frontmatter"}

EntersUnterminatedFrontmatter ==
    /\ BlockHandler(parser) = "frontmatter"
    /\ \A i \in (parser.pos + 1)..(Len(parser.toks) - 1) :
          KindAt(parser, i) # "FrontmatterDelim"

\* C7: when parse_blocks enters a frontmatter block and no frontmatter delimiter
\* comes later in the input, the parse aborts.
C7_UnterminatedFrontmatterAborts ==
    [][ParseBlocksStep /\ EntersUnterminatedFrontmatter
          => pc' = "aborted" /\ parser'.abort = "frontmatter"]_vars

\* C7 witness: the parse was aborted by the frontmatter panic after other blocks.
C7_Witness == Aborted /\ parser.abort = "frontmatter" /\ parser.out # <<>>
\* The rule of a closing fence: after at most three spaces, at least n
\* characters c and then only whitespace.
ClosesFence(line, c, n) ==
    LET k == MinOf({advance_while(line, 0, {" "}), 3})
        e == RunEnd(line, k, {c})
    IN e - k >= n /\ AllIn(Slice(line, e, Len(line)), TrimChars)

\* A CodeBlock node of Parser closes on a fence of the character and at least
\* the length of its opening fence.
ParserFenceOk(b) ==
    LET open == b.kids[1].kids[1].text
    IN \A k \in 1..Len(b.kids) :
          b.kids[k].kind = "CodeFenceClose" =>
              /\ AllIn(b.kids[k].kids[1].text, {open[1]})
              /\ Len(b.kids[k].kids[1].text) >= Len(open)

\* A block of BlockParser takes the lines that do not close it as content and
\* stops on a line that does.
BlockParserFenceOk(ls, pos) ==
    LET r == try_parse_fenced_code_block(ls, pos)
    IN r.ok =>
          /\ \A j \in (pos + 1)..(r.stop - 1) :
                ~ClosesFence(ls[j + 1], r.fence_char, r.fence_count)
          /\ r.found_closing => ClosesFence(ls[r.stop + 1], r.fence_char, r.fence_count)

\* C10: in both parsers a code block opened by a fence of n characters c is
\* closed only by a fence of the same character c and of length >= n.
C10_FenceClosing ==
    Parsed =>
        /\ \A i \in 1..Len(parser.out) :
              parser.out[i].kind = "CodeBlock" => ParserFenceOk(parser.out[i])
        /\ \A pos \in 0..(Len(lines(input)) - 1) : BlockParserFenceOk(lines(input), pos)

Formatted == pc = "formatted"

\* C1: formatting is idempotent: format(format(x, cfg), cfg) = format(x, cfg)
\* for every document x and every Config cfg.
C1_Idempotent == pc = "reformatted" => output2 = [abort |-> "none", text |-> output]

\* A wrapped line, printed after a prefix, keeps to line_width, or carries a
\* single word that is longer than the width available to it.
WrapFits(cfg, words, available, prefix) ==
    LET wrapped == wrap(cfg.algo, words, available)
    IN \A l \in 1..Len(wrapped) :
          \/ prefix + Len(LineText(wrapped[l])) <= cfg.line_width
          \/ Len(wrapped[l]) = 1 /\ Len(wrapped[l][1].word) > available

ListItemFits(cfg, node) ==
    LET marker == LastChild(Node("ListItem", SelectSeq(node.kids,
                        LAMBDA k : k.leaf /\ k.kind = "ListMarker")), "ListMarker")
        all == build_words(node)
        hanging == Len(NodeText(marker)) + 1 + ListItemIndent(node, 0)
    IN WrapFits(cfg, IF all # <<>> /\ all[1].word = NodeText(marker) THEN Tail(all) ELSE all,
                saturating_sub(cfg.line_width, hanging), hanging)

BlockFits(cfg, node) ==
    CASE node.kind = "PARAGRAPH" -> WrapFits(cfg, build_words(node), cfg.line_width, 0)
      [] node.kind = "BlockQuote" ->
            \A k \in 1..Len(node.kids) :
                node.kids[k].kind = "PARAGRAPH" /\ ~node.kids[k].leaf =>
                    WrapFits(cfg, build_words(node.kids[k]),
                             saturating_sub(cfg.line_width, 2), 2)
      [] node.kind = "List" ->
            \A k \in 1..Len(node.kids) :
                node.kids[k].kind = "ListItem" /\ ~node.kids[k].leaf =>
                    ListItemFits(cfg, node.kids[k])
      [] OTHER -> TRUE

\* C8: in Reflow mode every output line of a paragraph, of a paragraph in a
\* block quote and of a list item, counted with its prefix or indent, is at
\* most line_width long, unless the line carries a single word that is longer
\* than the available width.
C8_ReflowWidth ==
    Formatted /\ WrapMode(config) = "Reflow" =>
        \A i \in 1..Len(parser.out) :
            ~parser.out[i].leaf => BlockFits(config, parser.out[i])

\* Documents made only of canonical verbatim constructs and of blank lines
\* that separate them; frontmatter only opens a document.
CanonicalVerbatimDocs ==
    {Flatten(b) : b \in {c \in UNION {[1..n -> VerbatimBlocks] : n \in 1..MaxLines} :
        /\ c[1] # <<NL>>
        /\ c[Len(c)] # <<NL>>
        /\ \A i \in 2..Len(c) : c[i][1] # "-"}}

\* C9: in Preserve mode format_tree(parse(x)) = x for every x made only of
\* canonical verbatim constructs (code blocks, math blocks, frontmatter, divs,
\* comments) and blank lines separating them.
C9_PreserveVerbatim ==
    Formatted /\ WrapMode(config) = "Preserve" /\ input \in CanonicalVerbatimDocs =>
        output = input

\* The constructs that absorb the rest of the input when nothing closes them,
\* with the kind of their node.
AbsorbingHandlers ==
    [code_block |-> "CodeBlock", fenced_div |-> "FencedDiv",
     block_math |-> "MathBlock", latex_environment |-> "LatexEnvironment"]

\* Token i could close the construct that handler h opens at the current token.
IsCloserOf(ps, h, i) ==
    CASE h = "code_block" -> KindAt(ps, i) = "CodeFenceMarker"
      [] h = "fenced_div" -> KindAt(ps, i) = "DivMarker" /\ LenAt(ps, i) = LenAt(ps, ps.pos)
      [] h = "block_math" -> KindAt(ps, i) = "BlockMathMarker"
      [] h = "latex_environment" -> KindAt(ps, i) = "LatexEnvEnd"

EntersUnterminated(h) ==
    /\ BlockHandler(parser) = h
    /\ \A i \in (parser.pos + 1)..(Len(parser.toks) - 1) : ~IsCloserOf(parser, h, i)

KidsOfKind(node, kind) == {k \in 1..Len(node.kids) : node.kids[k].kind = kind}

\* The node of a construct carries the child that closes it.
HasClosingChild(node) ==
    CASE node.kind = "CodeBlock" -> KidsOfKind(node, "CodeFenceClose") # {}
      [] node.kind = "FencedDiv" -> KidsOfKind(node, "DivFenceClose") # {}
      [] node.kind = "MathBlock" -> Cardinality(KidsOfKind(node, "BlockMathMarker")) > 1
      [] node.kind = "LatexEnvironment" -> KidsOfKind(node, "LatexEnvEnd") # {}
      [] OTHER -> FALSE

\* The construct entered by the last step is the last node, unclosed, and no
\* token is left after it.
AbsorbedRest(ps, h) ==
    /\ at_eof(ps)
    /\ ps.out # <<>>
    /\ ps.out[Len(ps.out)].kind = AbsorbingHandlers[h]
    /\ ~HasClosingChild(ps.out[Len(ps.out)])

\* C11: when parse_blocks enters a code block, fenced div, math block or LaTeX
\* environment and no token that could close it comes later in the input, the
\* parse goes on without a panic, the node of the construct has no closing
\* child and no token of the input is left after that node.
C11_UnterminatedAbsorbs ==
    [][\A h \in DOMAIN AbsorbingHandlers :
          ParseBlocksStep /\ EntersUnterminated(h)
             => parser'.abort = "none" /\ AbsorbedRest(parser', h)]_vars

\* The length of the fence that opened a FencedDiv node.
OpenFenceLen(div) == Len(NodeText(div.kids[1].kids[1]))

\* In the tree under e, every DivFenceClose is as long as the fence that
\* opened its FencedDiv.
RECURSIVE ClosedByEqualFence(_)
ClosedByEqualFence(e) ==
    /\ e.kind = "FencedDiv" =>
          \A k \in KidsOfKind(e, "DivFenceClose") : Len(NodeText(e.kids[k])) = OpenFenceLen(e)
    /\ \A k \in 1..Len(e.kids) : ClosedByEqualFence(e.kids[k])

\* C12: a FencedDiv opened by a fence of n colons has a DivFenceClose only of
\* exactly n colons; fences of other lengths in its content do not close it.
C12_DivClosedByEqualLength == \A i \in 1..Len(parser.out) : ClosedByEqualFence(parser.out[i])

\* C12 witness: a closed FencedDiv whose content holds a div fence of another
\* length.
C12_Witness ==
    /\ Parsed
    /\ \E i \in 1..Len(parser.out) :
          LET div == parser.out[i]
          IN /\ div.kind = "FencedDiv"
             /\ KidsOfKind(div, "DivFenceClose") # {}
             /\ \E c \in KidsOfKind(div, "DivContent") :
                   \E k \in KidsOfKind(div.kids[c], "FencedDiv") :
                      OpenFenceLen(div.kids[c].kids[k]) # OpenFenceLen(div)

\* The index of the first token of the line after the current one.
NextLineStart(ps) ==
    MinOf({i \in (ps.pos + 1)..Len(ps.toks) : i = Len(ps.toks) \/ KindAt(ps, i - 1) = "NEWLINE"})

\* Token i is a div fence as long as the current one with attributes after it
\* on its line: the opening line of a div.
IsOpeningFenceOf(ps, i) ==
    /\ KindAt(ps, i) = "DivMarker"
    /\ LenAt(ps, i) = LenAt(ps, ps.pos)
    /\ KindAt(ps, i + 1) = "WHITESPACE"
    /\ KindAt(ps, i + 2) \notin {"NEWLINE", "EOF"}

EntersDivWithNestedDiv ==
    /\ BlockHandler(parser) = "fenced_div"
    /\ IsOpeningFenceOf(parser, NextLineStart(parser))

\* The content of the div starts with a nested FencedDiv.
StartsWithNestedDiv(div) ==
    /\ div.kind = "FencedDiv"
    /\ \E c \in KidsOfKind(div, "DivContent") :
          /\ div.kids[c].kids # <<>>
          /\ div.kids[c].kids[1].kind = "FencedDiv"

\* C13: when a div is entered and its first content line is the opening line
\* of a div with a fence of the same length, that line starts a nested
\* FencedDiv inside the content of the outer div and does not close the outer
\* div.
C13_NestedSameLengthDiv ==
    [][ParseBlocksStep /\ EntersDivWithNestedDiv
          => StartsWithNestedDiv(parser'.out[Len(parser'.out)])]_vars

\* A line that starts, after white space, with '>'.
IsQuotedLine(l) == CharAt(TrimStart(l), 0) = ">"

\* A quoted line with nothing after its markers.
IsQuotedBlankLine(l) == IsQuotedLine(l) /\ AllIn(l, {">", " "})

\* A quoted line with a second '>' after the first.
CarriesSecondMarker(l) == IsQuotedLine(l) /\ IsQuotedLine(Tail(TrimStart(l)))

\* The lines that may open a nested quote: those with a second '>' that come
\* right after a quoted blank line.
NestOpeners(ls) ==
    {i \in 2..Len(ls) : CarriesSecondMarker(ls[i]) /\ IsQuotedBlankLine(ls[i - 1])}

\* The number of BlockQuote nodes in kids[i..] that lie inside a BlockQuote.
RECURSIVE NestedQuotes(_, _, _)
NestedQuotes(kids, i, inside) ==
    IF i > Len(kids) THEN 0
    ELSE (IF kids[i].kind = "BlockQuote" /\ inside THEN 1 ELSE 0)
         + NestedQuotes(kids[i].kids, 1, inside \/ kids[i].kind = "BlockQuote")
         + NestedQuotes(kids, i + 1, inside)

TextOnly(t) == SelectSeq(t, LAMBDA c : c \notin {">", " ", NL})

\* The nodes among the blocks are one BlockQuote, whose nodes are one
\* PARAGRAPH that holds the text of ls.
OneQuoteOneParagraph(blocks, ls) ==
    LET nodes == SelectSeq(blocks, IsNode)
        inner == SelectSeq(nodes[1].kids, IsNode)
    IN /\ Len(nodes) = 1
       /\ nodes[1].kind = "BlockQuote"
       /\ Len(inner) = 1
       /\ inner[1].kind = "PARAGRAPH"
       /\ TextOnly(NodeText(inner[1])) = TextOnly(Flatten(ls))

\* The blocks of a document of the lines ls follow the nesting rule.
QuoteNestingRule(blocks, ls) ==
    /\ NestedQuotes(blocks, 1, FALSE) <= Cardinality(NestOpeners(ls))
    /\ (/\ Len(ls) = 2
        /\ IsQuotedLine(ls[1]) /\ ~IsQuotedBlankLine(ls[1]) /\ ~CarriesSecondMarker(ls[1])
        /\ CarriesSecondMarker(ls[2]) /\ ~IsQuotedBlankLine(ls[2]))
       => OneQuoteOneParagraph(blocks, ls)

\* C14: a line with a second '>' opens a nested BlockQuote only right after a
\* quoted blank line; a quoted line followed by a line with two markers gives
\* one BlockQuote of one PARAGRAPH with the text of both lines.  This holds for
\* the tree of Parser::parse and for the tree of BlockParser::parse.
C14_QuoteNesting ==
    Parsed => /\ QuoteNestingRule(parser.out, lines(input))
              /\ QuoteNestingRule(BlockParserParse(input).kids[1].kids, lines(input))

\* The columns of the indentation of a line, a tab counting four.
IndentOf(l) == IndentCols(l, 0, advance_while(l, 0, {" ", "\t"}))

\* A line that starts, after an indentation of at most three columns, with '>'.
IsBlockQuoteLine(l) == IndentOf(l) <= 3 /\ CharAt(l, advance_while(l, 0, {" ", "\t"})) = ">"

\* The rule for the '>' at offset pos of inp: pre is its line up to it, prev
\* the line before.
MarkerRule(inp, pos) ==
    LET line_start == LineStart(inp, pos)
        pre == Slice(inp, line_start, pos)
        prev == Slice(inp, LineStart(inp, line_start - 1), line_start - 1)
    IN /\ IndentOf(pre) <= 3
       /\ AllIn(Slice(pre, advance_while(pre, 0, {" ", "\t"}), Len(pre)), {" ", ">"})
       /\ \/ \E i \in 1..Len(pre) : pre[i] = ">"
          \/ line_start = 0
          \/ AllIn(prev, {" ", "\t", "\r"})
          \/ IsBlockQuoteLine(prev)

\* C15: a token that starts at a '>' is a BlockQuoteMarker exactly when the
\* indentation of its line is at most three columns (a tab counting four), only
\* spaces and '>' lie between the indentation and it and, when it is the first
\* '>' of its line, the line is the first of the input or the line before is
\* blank or starts, after at most three columns, with '>'; otherwise the token
\* is a TEXT of that one character.
C15_BlockQuoteMarkerRule ==
    \A i \in 1..Len(tokens) :
        input[tokens[i].start + 1] = ">" =>
            /\ tokens[i].len = 1
            /\ tokens[i].kind = IF MarkerRule(input, tokens[i].start)
                                THEN "BlockQuoteMarker" ELSE "TEXT"

\* C15 witness: one input with a marker after three columns, a '>' after a tab
\* or four columns that is TEXT, and a first '>' of a line accepted because the
\* line before is a quote line.
C15_Witness ==
    /\ pc = "parse"
    /\ \E i \in 1..Len(tokens) :
          /\ tokens[i].kind = "BlockQuoteMarker"
          /\ tokens[i].start - LineStart(input, tokens[i].start) = 3
    /\ \E i \in 1..Len(tokens) :
          /\ tokens[i].kind = "TEXT"
          /\ input[tokens[i].start + 1] = ">"
          /\ tokens[i].start > 0
          /\ input[tokens[i].start] \in {" ", "\t"}
          /\ AllIn(Slice(input, LineStart(input, tokens[i].start), tokens[i].start),
                   {" ", "\t"})
    /\ \E i \in 1..Len(tokens) :
          /\ tokens[i].kind = "BlockQuoteMarker"
          /\ LineStart(input, tokens[i].start) > 0
          /\ IsBlockQuoteLine(Slice(input,
                 LineStart(input, LineStart(input, tokens[i].start) - 1),
                 LineStart(input, tokens[i].start) - 1))

\* The one line a heading is to become, from the source text of the heading:
\* an ATX heading is one line, a Setext heading a line and its underline.
CanonicalHeading(src) ==
    LET first == TrimStart(src[1])
        hashes == advance_while(first, 0, {"#"})
        setext == Len(src) >= 2
        level == IF ~setext THEN hashes ELSE IF src[2][1] = "=" THEN 1 ELSE 2
        body == Trim(IF setext THEN src[1] ELSE Slice(first, hashes, Len(first)))
        content == IF body # <<>> /\ body[Len(body)] = "#"
                   THEN Trim(TrimEndIn(body, {"#"})) ELSE body
    IN Repeat(<<"#">>, level) \o <<" ">> \o content \o <<NL>>

HeadingsAt(blocks) == {i \in 1..Len(blocks) : blocks[i].kind = "Heading"}

\* C16: for every heading the formatter emits one line, the level in '#', one
\* space, the content without the white space around it and without its closing
\* run of '#', and a newline (the level is the number of opening '#', or 1 for
\* an '=' underline and 2 for a '-' underline); only the empty line that
\* separates it from a following block may come after it, and a document of
\* headings alone becomes these lines.
C16_HeadingCanonical ==
    Formatted =>
        /\ \A i \in HeadingsAt(parser.out) :
              LET line == CanonicalHeading(lines(NodeText(parser.out[i])))
              IN FormatHeading(parser.out, i, <<>>) \in {line, line \o <<NL>>}
        /\ HeadingsAt(parser.out) = 1..Len(parser.out) =>
              output = Flatten([i \in 1..Len(parser.out) |->
                                   CanonicalHeading(lines(NodeText(parser.out[i])))])

\* C16 witness: a formatted document with an ATX heading that carries closing
\* hashes and a Setext heading.
C16_Witness ==
    /\ Formatted
    /\ \E i \in HeadingsAt(parser.out) :
          /\ KidsOfKind(parser.out[i], "AtxHeadingMarker") # {}
          /\ ends_with(trim_end(NodeText(parser.out[i])), <<"#">>)
    /\ \E i \in HeadingsAt(parser.out) :
          KidsOfKind(parser.out[i], "SetextHeadingUnderline") # {}

\* The words of a text: its runs of characters that are not white space, each
\* followed by one space but the last.
RECURSIVE WordEnd(_, _)
WordEnd(t, p) ==
    IF p >= Len(t) \/ t[p + 1] \in TrimChars THEN p ELSE WordEnd(t, p + 1)

RECURSIVE SplitWords(_)
SplitWords(t) ==
    LET from == RunEnd(t, 0, TrimChars)
        to == WordEnd(t, from)
        rest == SplitWords(Slice(t, to, Len(t)))
    IN IF from >= Len(t) THEN <<>>
       ELSE <<[word |-> Slice(t, from, to),
               whitespace |-> IF rest = <<>> THEN <<>> ELSE <<" ">>]>> \o rest

\* The lines a list item is to become, from its source text src: the marker m
\* stands after i spaces, the text after it is wrapped to line_width less the
\* hanging indent i + Len(m) + 1.
CanonicalListItem(cfg, src) ==
    LET i == RunEnd(src, 0, {" "})
        m == Slice(src, i, WordEnd(src, i))
        hanging == i + Len(m) + 1
        wrapped == wrap(cfg.algo, SplitWords(Slice(src, i + Len(m), Len(src))),
                        cfg.line_width - hanging)
    IN Flatten([l \in 1..Len(wrapped) |->
                   (IF l = 1 THEN Repeat(<<" ">>, i) \o m \o <<" ">>
                    ELSE Repeat(<<" ">>, hanging))
                   \o LineText(wrapped[l]) \o <<NL>>])

\* The ListItem nodes under a List node, nested lists included, in order.
RECURSIVE ItemsOf(_, _)
ItemsOf(kids, i) ==
    IF i > Len(kids) THEN <<>>
    ELSE (IF kids[i].kind = "ListItem" /\ IsNode(kids[i]) THEN <<kids[i]>>
          ELSE IF kids[i].kind = "List" THEN ItemsOf(kids[i].kids, 1)
          ELSE <<>>)
         \o ItemsOf(kids, i + 1)

\* The item holds nothing but its marker and words of letters and digits: no
\* code span, math, link or other construct the wrapping treats on its own.
IsPlainItem(item) ==
    /\ \A j \in 1..Len(item.kids) : item.kids[j].leaf
    /\ \A j \in 1..Len(NodeText(item)) :
           NodeText(item)[j] \in Letters \cup Digits \cup {".", "-", " ", NL}

\* C17: the formatter emits a list item of plain text with marker m after i
\* spaces as i spaces, m, one space and the text, wrapped to
\* line_width - (i + Len(m) + 1), every continuation line after exactly
\* i + Len(m) + 1 spaces; a document that is one list of such items becomes the
\* lines of its items.
C17_ListItemHanging ==
    Formatted =>
        LET items == ItemsOf(parser.out, 1)
            plain == \A k \in 1..Len(items) : IsPlainItem(items[k])
        IN /\ \A k \in 1..Len(items) :
                 IsPlainItem(items[k]) =>
                     FormatListItem(config, items[k], 0, <<>>)
                        = CanonicalListItem(config, NodeText(items[k]))
           /\ (plain /\ Len(parser.out) = 1 /\ parser.out[1].kind = "List") =>
                 output = Flatten([k \in 1..Len(items) |->
                                      CanonicalListItem(config, NodeText(items[k]))])

\* The lines a BlockQuote at nesting depth d is to become, children i.. of
\* kids: each paragraph line after d times "> ", a quoted blank line as that
\* prefix without its trailing space, a nested quote at depth d + 1; paragraphs
\* are reflowed to line_width less the length 2 * d of the prefix.
RECURSIVE CanonicalQuote(_, _, _, _)
CanonicalQuote(cfg, kids, i, d) ==
    IF i > Len(kids) THEN <<>>
    ELSE (IF kids[i].leaf THEN <<>>
          ELSE IF kids[i].kind = "PARAGRAPH"
          THEN PrefixedLines(Repeat(<<">", " ">>, d),
                   IF WrapMode(cfg) = "Preserve" THEN lines(NodeText(kids[i]))
                   ELSE wrapped_lines_for_paragraph(cfg, kids[i], cfg.line_width - 2 * d))
          ELSE IF kids[i].kind = "BlankLine"
          THEN Repeat(<<">", " ">>, d - 1) \o <<">", NL>>
          ELSE CanonicalQuote(cfg, kids[i].kids, 1, d + 1))
         \o CanonicalQuote(cfg, kids, i + 1, d)

\* C18: the formatter emits a BlockQuote at depth d with "> " d times before
\* every line of its content, the trailing space dropped on quoted blank lines,
\* its paragraphs reflowed to line_width less the length of that prefix.
C18_QuotePrefix ==
    Formatted =>
        \A i \in 1..Len(parser.out) :
            (IsNode(parser.out[i]) /\ parser.out[i].kind = "BlockQuote") =>
                format_node(config, parser.out, i, 0, <<>>)
                    = CanonicalQuote(config, parser.out[i].kids, 1, 1)

\* The line ending at the "\n" t[i] is "\r\n".
IsCRLFAt(t, i) == i > 1 /\ t[i - 1] = "\r"

\* The positions of the line endings of a text.
LineEndings(t) == {i \in 1..Len(t) : t[i] = NL}

\* C19: format gives its output the line-ending style of its input: when the
\* first line ending of the input is "\r\n", every line ending of the output
\* is "\r\n"; when it is "\n", every line ending of the output is "\n".
C19_LineEndingRestored ==
    (Formatted /\ LineEndings(raw) # {}) =>
        \A i \in LineEndings(output) :
            IsCRLFAt(output, i) = IsCRLFAt(raw, MinOf(LineEndings(raw)))

\* The characters of the words of a plain paragraph and the spaces between.
PlainChars == Letters \cup {" "}

\* The text is two one-line plain paragraphs, the first ending at e, the second
\* starting at e2, with the blank lines between them: first line, e2 - e line
\* endings (one more than the blank lines), second line, line ending.
IsTwoParagraphs(t, e, e2) ==
    /\ e > 0
    /\ t[1] \in Letters
    /\ e2 - e >= 2
    /\ e2 < Len(t)
    /\ t[e2 + 1] \in Letters
    /\ RunEnd(t, e2, PlainChars) + 1 = Len(t)
    /\ t[Len(t)] = NL

IsParagraphNode(e) == e.kind = "PARAGRAPH"

\* The PARAGRAPH nodes among the blocks.
ParagraphsOf(blocks) == SelectSeq(SelectSeq(blocks, IsNode), IsParagraphNode)

\* With two paragraphs e2 - e - 1 blank lines apart in the input, the parsers
\* make two PARAGRAPH nodes and the output holds two paragraphs as far apart.
BlankLineRule(e, e2) ==
    IsTwoParagraphs(input, e, e2) =>
        /\ Parsed =>
              /\ Len(ParagraphsOf(parser.out)) = 2
              /\ Len(ParagraphsOf(BlockParserParse(input).kids[1].kids)) = 2
        /\ Formatted =>
              LET o == RunEnd(output, 0, PlainChars)
              IN IsTwoParagraphs(output, o, o + (e2 - e))

\* C20: a paragraph never extends across a blank line: of two paragraphs with
\* k >= 1 blank lines between them Parser::parse and BlockParser::parse each
\* make two PARAGRAPH nodes, and the formatted document holds the two
\* paragraphs with exactly k blank lines between them.
C20_ParagraphEndsAtBlankLine ==
    (input # <<>> /\ Len(input) <= 2 * MaxLines + MaxBlankLines) =>
        BlankLineRule(RunEnd(input, 0, PlainChars),
                      RunEnd(input, RunEnd(input, 0, PlainChars), {NL}))

\* Every character before position pos on its line is a space or a tab.
OnlyIndentBefore(inp, pos) == AllIn(Slice(inp, LineStart(inp, pos), pos), {" ", "\t"})

\* The characters at pos have the shape of a list marker followed by a space:
\* '-', '+' or '*', or digits and a '.'.
LooksLikeListMarker(inp, pos) ==
    \/ CharAt(inp, pos) \in {"-", "+", "*"} /\ CharAt(inp, pos + 1) = " "
    \/ /\ CharAt(inp, pos) \in Digits
       /\ CharAt(inp, RunEnd(inp, pos, Digits)) = "."
       /\ CharAt(inp, RunEnd(inp, pos, Digits) + 1) = " "

\* C21: tokenize emits a ListMarker only where nothing but spaces and tabs
\* stands before it on its line and a space follows it; a token that starts at
\* the same characters in mid-line is a TEXT.
C21_ListMarkerAtLineStart ==
    \A i \in 1..Len(tokens) :
        /\ tokens[i].kind = "ListMarker" =>
              /\ OnlyIndentBefore(input, tokens[i].start)
              /\ CharAt(input, tokens[i].start + tokens[i].len) = " "
        /\ (LooksLikeListMarker(input, tokens[i].start)
            /\ ~OnlyIndentBefore(input, tokens[i].start)) =>
              tokens[i].kind = "TEXT"

\* A line of words of letters that starts with a letter: not blank, no '>'.
IsLazyLine(l) == l # <<>> /\ l[1] \in Letters /\ AllIn(l, PlainChars)

\* The lines are a quoted line of plain text followed by lazy lines only.
IsLazyQuote(ls) ==
    /\ Len(ls) >= 2
    /\ ls[1] # <<>> /\ ls[1][1] = ">" /\ IsLazyLine(TrimStart(Tail(ls[1])))
    /\ \A j \in 2..Len(ls) : IsLazyLine(ls[j])

\* C22: the non-blank lines without '>' that directly follow a quoted line
\* belong to its paragraph: the tree of Parser::parse and the tree of
\* BlockParser::parse each hold one BlockQuote of one PARAGRAPH whose text
\* includes the text of every lazy line.
C22_LazyContinuation ==
    (Parsed /\ Len(input) <= 6 * MaxLines /\ IsLazyQuote(lines(input))) =>
        /\ OneQuoteOneParagraph(parser.out, lines(input))
        /\ OneQuoteOneParagraph(BlockParserParse(input).kids[1].kids, lines(input))

\* The offset of the first "$$" of t at or after p, Len(t) when there is none.
RECURSIVE MathCloser(_, _)
MathCloser(t, p) ==
    IF p + 2 > Len(t) THEN Len(t)
    ELSE IF t[p + 1] = "$" /\ t[p + 2] = "$" THEN p
    ELSE MathCloser(t, p + 1)

\* The content lines of the display math with the source text src: the lines
\* between the opening "$$" and the closing "$$"; what stands on the line of
\* the opening "$$" counts from its first character that is no white space.
MathContentLines(src) ==
    LET content == Slice(src, 2, MathCloser(src, 2))
    IN lines(IF content # <<>> /\ content[1] = NL THEN Tail(content)
             ELSE Slice(content, RunEnd(content, 0, {" ", "\t"}), Len(content)))

\* The label after the closing "$$", empty when there is none.
MathLabel(src) ==
    LET rest == Trim(Slice(src, MathCloser(src, 2) + 2, Len(src)))
    IN IF MathCloser(src, 2) + 2 <= Len(src) /\ CharAt(rest, 0) = "{" THEN rest ELSE <<>>

\* The lines a MathBlock is to become: "$$", each content line after
\* math_indent spaces with its own indentation and text, "$$" and the label.
CanonicalMath(cfg, src) ==
    <<"$", "$", NL>>
    \o Flatten([l \in 1..Len(MathContentLines(src)) |->
                   Repeat(<<" ">>, cfg.math_indent)
                   \o trim_end(MathContentLines(src)[l]) \o <<NL>>])
    \o <<"$", "$">>
    \o (IF MathLabel(src) = <<>> THEN <<>> ELSE <<" ">> \o MathLabel(src))
    \o <<NL>>

\* The node is a MathBlock none of whose content lines is blank.
IsFilledMathBlock(e) ==
    /\ IsNode(e)
    /\ e.kind = "MathBlock"
    /\ \A l \in 1..Len(MathContentLines(NodeText(e))) :
           Trim(MathContentLines(NodeText(e))[l]) # <<>>

\* C23: the formatter emits a MathBlock as "$$" on its own line, its content
\* lines in order, one output line for each, after math_indent spaces and with
\* their own text and indentation, never joined or split, then "$$" with a
\* space and the label when there is one; a document that is one MathBlock
\* becomes exactly these lines.  Stated for blocks without blank content lines.
C23_MathBlockLines ==
    Formatted =>
        /\ \A i \in 1..Len(parser.out) :
              IsFilledMathBlock(parser.out[i]) =>
                  FormatMathBlock(config, parser.out[i], <<>>)
                      = CanonicalMath(config, NodeText(parser.out[i]))
        /\ (Len(parser.out) = 1 /\ IsFilledMathBlock(parser.out[1])) =>
              output = CanonicalMath(config, input)

\* C24: with --check main never writes the input file, --write given or not,
\* and exits with status 1 exactly when the formatted output differs from the
\* input it read, with status 0 when they are equal.
C24_CheckMode ==
    (pc = "exited" /\ cli.check) =>
        /\ file = raw
        /\ status = (IF output # raw THEN 1 ELSE 0)

\* C24 witness: a run with --check and --write on a named file whose formatted
\* output differs from the input: status 1 and the file as it was.
C24_Witness ==
    /\ pc = "exited"
    /\ cli.check /\ cli.write /\ cli.file
    /\ output # raw
    /\ status = 1
    /\ file = raw

\* The words of a text, without the white space between them.
WordsOf(t) == [k \in 1..Len(SplitWords(t)) |-> SplitWords(t)[k].word]

\* The list item holds one ListMarker token.
HasOneMarker(item) ==
    Cardinality({j \in 1..Len(item.kids) : item.kids[j].kind = "ListMarker"}) = 1

\* C25: reflowing puts line breaks only where the source has white space or a
\* newline, never between two adjacent tokens: the words of the output of a
\* document of paragraphs, and of each list item, are the words of its source.
C25_NoBreakInsideWord ==
    (Formatted /\ WrapMode(config) = "Reflow" /\ Len(input) <= 6 * MaxLines) =>
        /\ (\A i \in 1..Len(parser.out) :
               IsNode(parser.out[i]) /\ parser.out[i].kind = "PARAGRAPH")
              => WordsOf(output) = WordsOf(input)
        /\ \A k \in 1..Len(ItemsOf(parser.out, 1)) :
              HasOneMarker(ItemsOf(parser.out, 1)[k]) =>
                  WordsOf(FormatListItem(config, ItemsOf(parser.out, 1)[k], 0, <<>>))
                      = WordsOf(NodeText(ItemsOf(parser.out, 1)[k]))

\* The number of nodes of a kind among kids[i..] and below them.
RECURSIVE NodesOfKind(_, _, _)
NodesOfKind(kids, i, kind) ==
    IF i > Len(kids) THEN 0
    ELSE (IF IsNode(kids[i]) /\ kids[i].kind = kind THEN 1 ELSE 0)
         + NodesOfKind(kids[i].kids, 1, kind)
         + NodesOfKind(kids, i + 1, kind)

\* C26: a frontmatter delimiter opens a FRONTMATTER block only at the very
\* start of the document: the only FRONTMATTER node that parse ever starts is
\* the first child of the document, and a "---" or "+++" line that the block
\* dispatch reaches later never starts one.
C26_FrontmatterAtStartOnly ==
    /\ NodesOfKind(parser.out, 2, "FRONTMATTER") = 0
    /\ parser.out # <<>> => NodesOfKind(parser.out[1].kids, 1, "FRONTMATTER") = 0

\* The text starts with a line of plain words that ends at e and an underline
\* line of the character c alone, trailing white space allowed, that starts at
\* e + 1: the offset after the newline of the underline line, else -1.
SetextEnd(t, e, c) ==
    LET u == RunEnd(t, e + 1, {c})
        w == RunEnd(t, u, {" ", "\t"})
    IN IF /\ e > 0 /\ t[1] \in Letters
          /\ CharAt(t, e) = NL
          /\ u > e + 1
          /\ CharAt(t, w) = NL
       THEN w + 1 ELSE -1

\* The first block of the document is a Heading that holds the first end
\* characters of the input and the underline character c.
FirstIsSetextHeading(end, c) ==
    /\ IsNode(parser.out[1])
    /\ parser.out[1].kind = "Heading"
    /\ NodeText(parser.out[1]) = Slice(input, 0, end)
    /\ LastChild(parser.out[1], "SetextHeadingUnderline").kind # "None"
    /\ CharAt(NodeText(LastChild(parser.out[1], "SetextHeadingUnderline")), 0) = c

\* C27: a non-empty text line followed at once by a line of '=' alone or of '-'
\* alone, of any length from 1 on and with optional trailing white space, is
\* parsed as a Setext heading; an underline of exactly three dashes too.
C27_SetextHeading ==
    (pc \in {"parse", "parsed"} /\ parser.out # <<>> /\ Len(input) <= 6 * MaxLines) =>
        \A c \in {"=", "-"} :
            SetextEnd(input, RunEnd(input, 0, PlainChars), c) # -1 =>
                FirstIsSetextHeading(SetextEnd(input, RunEnd(input, 0, PlainChars), c), c)

\* The width of the white space a line starts with.
WidthOf(l) == RunEnd(l, 0, {" "})

\* A line of a list item: white space, '-', a space and plain words.
IsItemLine(l) ==
    /\ CharAt(l, WidthOf(l)) = "-"
    /\ CharAt(l, WidthOf(l) + 1) = " "
    /\ IsLazyLine(Slice(l, WidthOf(l) + 2, Len(l)))

\* The kinds of the nodes among kids, in order.
KindsOf(kids) ==
    [i \in 1..Len(SelectSeq(kids, IsNode)) |-> SelectSeq(kids, IsNode)[i].kind]

\* The blocks of a document of two item lines with the widths w1 and w2:
\* siblings in one List, a nested List for the second, or the list ended
\* after the first.
ListShape(blocks, w1, w2) ==
    LET nodes == SelectSeq(blocks, IsNode)
    IN IF w2 = w1
       THEN KindsOf(blocks) = <<"List">> /\ KindsOf(nodes[1].kids) = <<"ListItem", "ListItem">>
       ELSE IF w2 > w1
       THEN /\ KindsOf(blocks) = <<"List">>
            /\ KindsOf(nodes[1].kids) = <<"ListItem", "List">>
            /\ KindsOf(SelectSeq(nodes[1].kids, IsNode)[2].kids) = <<"ListItem">>
       ELSE /\ KindsOf(blocks) = <<"List", "List">>
            /\ KindsOf(nodes[1].kids) = <<"ListItem">>
            /\ KindsOf(nodes[2].kids) = <<"ListItem">>

\* C28: in a list that starts at any indentation a marker of the width of the
\* list's items starts a sibling ListItem in the same List, a marker of greater
\* width a nested List, and a marker of smaller width ends the list.
C28_ListIndentation ==
    (Parsed /\ Len(input) <= 6 * MaxLines /\ Len(lines(input)) = 2
        /\ IsItemLine(lines(input)[1]) /\ IsItemLine(lines(input)[2])) =>
        ListShape(parser.out, WidthOf(lines(input)[1]), WidthOf(lines(input)[2]))

\* A line made of dashes and spaces only that is neither a frontmatter
\* delimiter ("---") nor the start of a list item ("- ").
IsDashedLine(l) ==
    /\ AllIn(l, {"-", " "})
    /\ \E i \in 1..Len(l) : l[i] = "-"
    /\ l # <<"-", "-", "-">>
    /\ ~(CharAt(l, 0) = "-" /\ CharAt(l, 1) = " ")

\* A body line of a table: plain words.
IsBodyLine(l) == l # <<>> /\ l[1] \in Letters \cup Digits /\ AllIn(l, Letters \cup Digits \cup {" "})

\* The lines from the second on are the body lines of a headerless table, up
\* to the line last.
AreBodyLines(ls, last) == last >= 2 /\ \A j \in 2..last : IsBodyLine(ls[j])

\* The blocks agree with the lines ls of the document: a dashed line, body
\* lines and a closing dashed line are one SimpleTable that holds them all; a
\* dashed line and body lines without a closing line hold no SimpleTable.
HeaderlessTableRule(blocks, ls, inp) ==
    (Len(ls) >= 2 /\ IsDashedLine(ls[1])) =>
        /\ (Len(ls) >= 3 /\ AreBodyLines(ls, Len(ls) - 1) /\ IsDashedLine(ls[Len(ls)])) =>
              /\ KindsOf(blocks) = <<"SimpleTable">>
              /\ NodeText(SelectSeq(blocks, IsNode)[1]) = inp
        /\ AreBodyLines(ls, Len(ls)) => NodesOfKind(blocks, 1, "SimpleTable") = 0

\* C29: parse makes a headerless SimpleTable exactly of a dashed line followed
\* by one or more body lines and a closing dashed line; without the closing
\* dashed line there is no SimpleTable node and the lines are ordinary text.
C29_HeaderlessTable ==
    (Parsed /\ Len(input) <= 6 * (MaxLines + MaxBodyRows) /\ input[Len(input)] = NL) =>
        HeaderlessTableRule(parser.out, lines(input), input)

\* A maximal run of exactly n backticks starts at position p.
IsBacktickRun(inp, p, n) ==
    /\ CharAt(inp, p) = BT
    /\ CharAt(inp, p - 1) # BT
    /\ advance_while(inp, p, {BT}) = n

\* The starts of the runs of exactly n backticks after the opening run at s.
ClosingRuns(inp, s, n) == {p \in (s + n)..(Len(inp) - 1) : IsBacktickRun(inp, p, n)}

\* C30: a code span opened by a run of n backticks is one CodeSpan token that
\* reaches, across newlines, to the end of the first later run of exactly n
\* backticks; a run of another length inside the span does not close it.
C30_CodeSpanClosesAtEqualRun ==
    pc # "lex" =>
        \A i \in 1..Len(tokens) :
            tokens[i].kind = "CodeSpan" =>
                LET s == tokens[i].start
                    n == advance_while(input, s, {BT})
                IN ClosingRuns(input, s, n) # {} =>
                       s + tokens[i].len = MinOf(ClosingRuns(input, s, n)) + n
=============================================================================
